---- MODULE Spec2Model ----
(***************************************************************************)
(* Model of the sofiapos backend (FastAPI + SQLAlchemy).                   *)
(*                                                                         *)
(* The database tables are sequences of rows; a row's id is its index      *)
(* (autoincrement primary keys, rows of these tables are never deleted).   *)
(* Optional integers use None (0, falsy as in Python), optional strings    *)
(* use "" (falsy as in Python).  Timestamps, notes, balances and the user  *)
(* stamps of the rows are left out: no handler branches on them.           *)
(*                                                                         *)
(* Each subsystem has its own specification over the shared variables:     *)
(*   SpecShift      shift open/close, one request at a time                *)
(*   SpecShiftRace  shift open/close, requests of several workers          *)
(*                  interleaved between their reads and their commit       *)
(***************************************************************************)
EXTENDS Integers, Sequences, FiniteSets, TLC

VARIABLES
    cash_registers,   \* table cash_registers: Seq of rows
    shifts,           \* table shifts
    shift_users,      \* table shift_users
    histories,        \* table cash_register_histories
    shift_inventory,  \* table shift_inventory
    resp,             \* response of the last request handled (one at a time)
    pending,          \* per worker: the request between its reads and its commit
    active_connections,   \* ConnectionManager.active_connections: identifier -> set
    connection_metadata,  \* ConnectionManager.connection_metadata: websocket -> dict
    sock,             \* per websocket: state of the socket
    hpc,              \* per websocket: position of its websocket_sync_endpoint call
    bc,               \* the broadcast in progress (_broadcast_to_identifier)
    inventory_entries,    \* table inventory_entries
    wresp,            \* per worker: the response to its last request
    orders,           \* table orders
    order_items,      \* table order_items
    ever_paid,        \* history: ids of the orders whose status has been paid
    clock,            \* the wall clock, in seconds
    inventory_transactions,  \* table inventory_transactions
    hooks,            \* HookRegistry._hooks: key -> list of handlers by priority
    hook_exec,        \* the last call of HookRegistry.execute, as its caller and
                      \* the handlers saw it
    products,         \* table products
    kit_components,   \* table kit_components
    product_images,   \* table product_images
    notif,            \* the notification last passed to notify_entity_update and
                      \* the progress of its broadcast task
    stores,           \* table stores
    tables,           \* table tables
    users,            \* table users: id -> row, of which the store is kept
    store_product_groups,  \* table store_product_groups
    calc              \* the last call of a function of utils/ and main.py: its
                      \* name, its arguments and what it gave

shiftVars == <<cash_registers, shifts, shift_users, histories, shift_inventory,
               resp, pending>>

wsVars == <<active_connections, connection_metadata, sock, hpc, bc>>

invVars == <<inventory_entries, wresp>>

orderVars == <<orders, order_items, ever_paid, clock>>

txVars == <<inventory_transactions>>

\* the variables of the parts that follow the orders
hookVars == <<hooks, hook_exec>>

catalogVars == <<products, kit_components>>

notifVars == <<product_images, notif>>

storeVars == <<stores, tables, users>>

groupVars == <<store_product_groups>>

calcVars == <<calc>>

laterVars == <<txVars, hookVars, catalogVars, notifVars, storeVars, groupVars, calcVars>>

vars == <<shiftVars, wsVars, invVars, orderVars, laterVars>>

\* what the actions of one part leave alone
restOfShift == <<wsVars, invVars, orderVars, laterVars>>
restOfWS == <<shiftVars, invVars, orderVars, laterVars>>
restOfInv == <<cash_registers, shifts, shift_users, histories, shift_inventory, resp,
               wsVars, orderVars, laterVars>>
restOfReg == <<shifts, shift_users, histories, shift_inventory, pending,
               wsVars, invVars, orderVars, laterVars>>
restOfOrder == <<cash_registers, shifts, shift_users, histories, shift_inventory, pending,
                 wsVars, invVars, laterVars>>
restOfTx == <<cash_registers, shifts, shift_users, histories, shift_inventory, pending,
              wsVars, invVars, orderVars, hookVars, catalogVars, notifVars, storeVars,
              groupVars, calcVars>>
restOfHooks == <<shiftVars, wsVars, invVars, orderVars, txVars, catalogVars, notifVars,
                 storeVars, groupVars, calcVars>>
restOfCatalog == <<cash_registers, shifts, shift_users, histories, shift_inventory, pending,
                   wsVars, invVars, orderVars, txVars, hookVars, storeVars,
                   groupVars, calcVars>>
restOfNotify == <<cash_registers, shifts, shift_users, histories, shift_inventory, pending,
                  invVars, orderVars, txVars, hookVars, catalogVars, storeVars,
                  groupVars, calcVars>>
restOfStore == <<cash_registers, shifts, shift_users, histories, shift_inventory, pending,
                 wsVars, invVars, orderVars, txVars, hookVars, catalogVars, notifVars,
                 groupVars, calcVars>>
restOfGroup == <<cash_registers, shifts, shift_users, histories, shift_inventory, pending,
                 wsVars, invVars, orderVars, txVars, hookVars, catalogVars, notifVars,
                 storeVars, calcVars>>
restOfCalc == <<shiftVars, wsVars, invVars, orderVars, txVars, hookVars, catalogVars,
                notifVars, storeVars, groupVars>>

-----------------------------------------------------------------------------
(* Bounds of the model *)

MaxShifts == 2        \* shifts rows created at most
NumWorkers == 2       \* request workers running concurrently
MaxBroadcasts == 1    \* broadcasts run at most

-----------------------------------------------------------------------------
(* Shared helpers *)

None == 0

Workers == 1..NumWorkers

\* the principals of the requests: a superuser, one user per store, and a
\* non-superuser that has no store assigned
Users == { [id |-> 1, is_superuser |-> TRUE,  store_id |-> None],
           [id |-> 2, is_superuser |-> FALSE, store_id |-> 1],
           [id |-> 3, is_superuser |-> FALSE, store_id |-> 2],
           [id |-> 4, is_superuser |-> FALSE, store_id |-> None] }

\* table stores: store 1 requires a start inventory balance
Stores == {1, 2}

requires_start_inventory(store_id) == store_id = 1

\* table document_prefixes
DocumentPrefixes ==
    { [store_id |-> 1,    doc_type |-> "shift",   prefix |-> "T", is_active |-> TRUE],
      [store_id |-> None, doc_type |-> "shift",   prefix |-> "G", is_active |-> TRUE],
      [store_id |-> None, doc_type |-> "invoice", prefix |-> "F", is_active |-> TRUE] }

Ids(table) == 1..Len(table)

\* Query.first() of an unordered query, taken as the row of lowest id
First(ids) == IF ids = {} THEN None ELSE CHOOSE i \in ids : \A j \in ids : i <= j

\* the access rule every store-scoped handler applies
has_store_access(user, store_id) ==
    user.is_superuser \/ user.store_id = store_id

NoResp == [op |-> "none", status |-> None]

NoPending == [op |-> "none"]

-----------------------------------------------------------------------------
(* utils/base36.py *)

BASE36_CHARS ==
    << "A","B","C","D","E","F","G","H","I","J","K","L","M","N","O","P","Q","R",
       "S","T","U","V","W","X","Y","Z","0","1","2","3","4","5","6","7","8","9" >>

\* the string of a sequence of characters
RECURSIVE str_join(_)
str_join(chars) ==
    IF chars = << >> THEN "" ELSE Head(chars) \o str_join(Tail(chars))

\* the while loop of encode_base36, as the characters of its result
RECURSIVE base36_digits(_)
base36_digits(number) ==
    IF number = 0 THEN << >>
    ELSE Append(base36_digits(number \div 36), BASE36_CHARS[(number % 36) + 1])

RECURSIVE pad_left_A(_, _)
pad_left_A(chars, min_length) ==
    IF Len(chars) < min_length THEN pad_left_A(<<"A">> \o chars, min_length) ELSE chars

\* encode_base36, as the characters of its result
encode_base36_chars(number, min_length) ==
    pad_left_A(IF number = 0 THEN <<"A">> ELSE base36_digits(number), min_length)

encode_base36(number, min_length) == str_join(encode_base36_chars(number, min_length))

pad_base36(number, width) == encode_base36(number, width)

\* pad_base36, as the characters of its result
pad_base36_chars(number, width) == encode_base36_chars(number, width)

-----------------------------------------------------------------------------
(* api/v1/shifts.py *)

\* the day the requests are handled on, as int(now.strftime("%Y%m%d"))
date_number == 20261102

\* Shift JOIN CashRegisterHistory ON history.shift_id = shift.id
\* WHERE history.cash_register_id = :id AND shift.status = 'open'
open_shifts_of_register(cash_register_id) ==
    { s \in Ids(shifts) :
        /\ shifts[s].status = "open"
        /\ \E h \in Ids(histories) :
              /\ histories[h].shift_id = s
              /\ histories[h].cash_register_id = cash_register_id }

\* the shifts opened today for the register, found through the histories
shift_count(cash_register_id) ==
    Cardinality({ s \in Ids(shifts) :
        \E h \in Ids(histories) :
            /\ histories[h].shift_id = s
            /\ histories[h].cash_register_id = cash_register_id })

shift_doc_prefix(store_id) ==
    LET rows == { d \in DocumentPrefixes :
                    d.store_id = store_id /\ d.doc_type = "shift" /\ d.is_active }
    IN  IF rows = {} THEN "" ELSE (CHOOSE d \in rows : TRUE).prefix

generate_shift_number(cash_register_id) ==
    LET cash_register == cash_registers[cash_register_id]
    IN  shift_doc_prefix(cash_register.store_id) \o cash_register.code \o "-"
            \o encode_base36(date_number, 0)
            \o pad_base36(shift_count(cash_register_id) + 1, 2)

\* the cash register an open request names, by id or else by code; active only
find_cash_register(req) ==
    IF req.cash_register_id # None
    THEN First({ c \in Ids(cash_registers) :
                    c = req.cash_register_id /\ cash_registers[c].is_active })
    ELSE First({ c \in Ids(cash_registers) :
                    /\ cash_registers[c].code = req.cash_register_code
                    /\ cash_registers[c].is_active })

Reject(op, status, detail) ==
    [op |-> op, status |-> status, detail |-> detail]

\* the reads and validations of open_shift: a rejection, or the rows to insert
open_shift_no_open_check(user, req) ==
    LET cr == find_cash_register(req)
    IN  IF req.cash_register_id = None /\ req.cash_register_code = ""
        THEN Reject("open", 400, "register_required") @@ [cash_register_id |-> None]
        ELSE IF cr = None
        THEN Reject("open", 404, "register_not_found") @@ [cash_register_id |-> None]
        ELSE IF cash_registers[cr].store_id \notin Stores
        THEN Reject("open", 404, "store_not_found") @@ [cash_register_id |-> cr]
        ELSE IF ~has_store_access(user, cash_registers[cr].store_id)
        THEN Reject("open", 403, "forbidden") @@ [cash_register_id |-> cr]
        ELSE IF requires_start_inventory(cash_registers[cr].store_id)
                    /\ ~req.has_inventory_balance
        THEN Reject("open", 400, "inventory_required") @@ [cash_register_id |-> cr]
        ELSE IF req.shift_number # ""
                    /\ \E s \in Ids(shifts) : shifts[s].shift_number = req.shift_number
        THEN Reject("open", 400, "number_exists") @@ [cash_register_id |-> cr]
        ELSE [op |-> "open", status |-> 201, detail |-> "created",
              cash_register_id |-> cr,
              store_id |-> cash_registers[cr].store_id,
              shift_number |-> IF req.shift_number # "" THEN req.shift_number
                               ELSE generate_shift_number(cr)]

\* open_shift without its check for an open shift of the register
open_shift_check_unguarded(user, req) == open_shift_no_open_check(user, req)

open_shift_check(user, req) ==
    LET cr == find_cash_register(req)
        open == IF cr = None THEN {} ELSE open_shifts_of_register(cr)
    IN  IF /\ req.cash_register_id # None \/ req.cash_register_code # ""
           /\ cr # None
           /\ cash_registers[cr].store_id \in Stores
           /\ has_store_access(user, cash_registers[cr].store_id)
           /\ open # {}
        THEN Reject("open", 400, "already_open")
                @@ [cash_register_id |-> cr,
                    shift_number |-> shifts[First(open)].shift_number]
        ELSE open_shift_no_open_check(user, req)

\* an open that commits the shift and its user without the history row
open_shift_write_no_history(d) ==
    /\ shifts' = Append(shifts, [store_id |-> d.store_id,
                                 shift_number |-> d.shift_number,
                                 status |-> "open",
                                 closed_at |-> None])
    /\ shift_users' = Append(shift_users, [shift_id |-> Len(shifts) + 1])
    /\ UNCHANGED <<cash_registers, shift_inventory, histories>>

\* db.add(new_shift); db.flush(); db.add(shift_user); db.add(history); db.commit()
open_shift_write(d) ==
    /\ shifts' = Append(shifts, [store_id |-> d.store_id,
                                 shift_number |-> d.shift_number,
                                 status |-> "open",
                                 closed_at |-> None])
    /\ shift_users' = Append(shift_users, [shift_id |-> Len(shifts) + 1])
    /\ histories' = Append(histories, [cash_register_id |-> d.cash_register_id,
                                       shift_id |-> Len(shifts) + 1,
                                       status |-> "open"])
    /\ UNCHANGED <<cash_registers, shift_inventory>>

open_shift_response(d) ==
    [op |-> "open", status |-> 201, detail |-> "created", id |-> Len(shifts) + 1,
     cash_register_id |-> d.cash_register_id, shift_number |-> d.shift_number]

\* the open history rows paired with a shift
open_histories_of_shift(shift_id) ==
    { h \in Ids(histories) :
        histories[h].shift_id = shift_id /\ histories[h].status = "open" }

\* the reads and validations of close_shift and close_shift_with_inventory
close_shift_check(user, shift_id, with_inventory, entries) ==
    LET op == IF with_inventory THEN "close_with_inventory" ELSE "close"
    IN  IF shift_id \notin Ids(shifts)
        THEN Reject(op, 404, "shift_not_found") @@ [shift_id |-> shift_id]
        ELSE IF ~has_store_access(user, shifts[shift_id].store_id)
        THEN Reject(op, 403, "forbidden") @@ [shift_id |-> shift_id]
        ELSE IF shifts[shift_id].status = "closed"
        THEN Reject(op, 400, "already_closed") @@ [shift_id |-> shift_id]
        ELSE IF open_histories_of_shift(shift_id) = {}
        THEN Reject(op, 400, "no_open_history") @@ [shift_id |-> shift_id]
        ELSE [op |-> op, status |-> 200, detail |-> "closed",
              shift_id |-> shift_id,
              history_id |-> First(open_histories_of_shift(shift_id)),
              entries |-> IF with_inventory THEN entries ELSE 0]

RECURSIVE end_bal_rows(_, _)
end_bal_rows(shift_id, n) ==
    IF n = 0 THEN <<>>
    ELSE Append(end_bal_rows(shift_id, n - 1),
                [shift_id |-> shift_id, entry_type |-> "end_bal"])

\* close that leaves the paired history row open
close_shift_write_shift_only(d) ==
    /\ shifts' = [shifts EXCEPT ![d.shift_id].status = "closed",
                                ![d.shift_id].closed_at = clock]
    /\ shift_inventory' = shift_inventory \o end_bal_rows(d.shift_id, d.entries)
    /\ UNCHANGED <<cash_registers, shift_users, histories>>

\* shift.status = "closed"; cash_register_history.status = "closed";
\* one ShiftInventory row per submitted entry; db.commit()
close_shift_write(d) ==
    /\ shifts' = [shifts EXCEPT ![d.shift_id].status = "closed",
                                ![d.shift_id].closed_at = clock]
    /\ histories' = [histories EXCEPT ![d.history_id].status = "closed"]
    /\ shift_inventory' = shift_inventory \o end_bal_rows(d.shift_id, d.entries)
    /\ UNCHANGED <<cash_registers, shift_users>>

close_shift_response(d) ==
    [op |-> d.op, status |-> 200, detail |-> "closed", id |-> d.shift_id,
     shift_id |-> d.shift_id,
     cash_register_id |-> histories[d.history_id].cash_register_id]

-----------------------------------------------------------------------------
(* The requests the clients send *)

\* a request names its cash register by id, by code, or not at all
OpenRequests ==
    { r \in [ cash_register_id : {None, 1, 2},
              cash_register_code : {"", "CR-T1", "CR-ZZ"},
              shift_number : {"", "S1"},
              has_inventory_balance : BOOLEAN ] :
        r.cash_register_id # None => r.cash_register_code = "" }

\* close requests: the plain close, and close-with-inventory with 0 or 1 entries
CloseKinds == { <<FALSE, 0>>, <<TRUE, 0>>, <<TRUE, 1>> }

ShiftIdInputs == 1..(MaxShifts + 1)

dbTables == <<cash_registers, shifts, shift_users, histories, shift_inventory>>

-----------------------------------------------------------------------------
(* Shift open/close, one request at a time *)

InitShiftTables ==
    /\ cash_registers =
          << [store_id |-> 1, name |-> "Till 1", code |-> "CR-T1", is_active |-> TRUE],
             [store_id |-> 1, name |-> "Till 2", code |-> "CR-T2", is_active |-> TRUE] >>
    /\ shifts = <<>>
    /\ shift_users = <<>>
    /\ histories = <<>>
    /\ shift_inventory = <<>>

InitShift ==
    /\ InitShiftTables
    /\ resp = NoResp
    /\ pending = [w \in Workers |-> NoPending]

OpenShift(user, req) ==
    LET d == open_shift_check(user, req)
    IN  /\ IF d.status = 201
           THEN /\ Len(shifts) < MaxShifts
                /\ open_shift_write(d)
                /\ resp' = open_shift_response(d)
           ELSE /\ resp' = d
                /\ UNCHANGED dbTables
        /\ UNCHANGED pending
        /\ UNCHANGED restOfShift

CloseShift(user, shift_id, with_inventory, entries) ==
    LET d == close_shift_check(user, shift_id, with_inventory, entries)
    IN  /\ IF d.status = 200
           THEN /\ close_shift_write(d)
                /\ resp' = close_shift_response(d)
           ELSE /\ resp' = d
                /\ UNCHANGED dbTables
        /\ UNCHANGED pending
        /\ UNCHANGED restOfShift

NextShift ==
    \/ \E user \in Users, req \in OpenRequests : OpenShift(user, req)
    \/ \E user \in Users, shift_id \in ShiftIdInputs, k \in CloseKinds :
            CloseShift(user, shift_id, k[1], k[2])

-----------------------------------------------------------------------------
(* Shift open/close, the requests of several workers interleaved: a handler  *)
(* reads and validates, and commits its rows in a later step.  A request     *)
(* that its validations reject changes no row and is left out.               *)

OpenShiftBegin(w, user, req) ==
    LET d == open_shift_check(user, req)
    IN  /\ pending[w].op = "none"
        /\ d.status = 201
        /\ pending' = [pending EXCEPT ![w] = d]
        /\ UNCHANGED <<dbTables, resp>>
        /\ UNCHANGED restOfShift

OpenShiftCommit(w) ==
    /\ pending[w].op = "open"
    /\ Len(shifts) < MaxShifts
    /\ open_shift_write(pending[w])
    /\ pending' = [pending EXCEPT ![w] = NoPending]
    /\ UNCHANGED resp
    /\ UNCHANGED restOfShift

CloseShiftBegin(w, user, shift_id, with_inventory, entries) ==
    LET d == close_shift_check(user, shift_id, with_inventory, entries)
    IN  /\ pending[w].op = "none"
        /\ d.status = 200
        /\ pending' = [pending EXCEPT ![w] = d]
        /\ UNCHANGED <<dbTables, resp>>
        /\ UNCHANGED restOfShift

CloseShiftCommit(w) ==
    /\ pending[w].op \in {"close", "close_with_inventory"}
    /\ close_shift_write(pending[w])
    /\ pending' = [pending EXCEPT ![w] = NoPending]
    /\ UNCHANGED resp
    /\ UNCHANGED restOfShift

NextShiftRace ==
    \/ \E w \in Workers, user \in Users, req \in OpenRequests :
          OpenShiftBegin(w, user, req)
    \/ \E w \in Workers : OpenShiftCommit(w)
    \/ \E w \in Workers, user \in Users, shift_id \in ShiftIdInputs, k \in CloseKinds :
            CloseShiftBegin(w, user, shift_id, k[1], k[2])
    \/ \E w \in Workers : CloseShiftCommit(w)

\* the request of a worker fails between its reads and its commit: get_db
\* closes the session, and what the handler had added or flushed is rolled
\* back
RequestFails(w) ==
    /\ pending[w].op # "none"
    /\ pending' = [pending EXCEPT ![w] = NoPending]
    /\ UNCHANGED <<dbTables, resp>>
    /\ UNCHANGED restOfShift

\* open requests for the two registers, by id and without a shift number
PairOpenRequests ==
    [cash_register_id : {1, 2}, cash_register_code : {""}, shift_number : {""},
     has_inventory_balance : {TRUE}]

\* a superuser's requests to open and to close, interleaved, some failing
NextShiftPair ==
    \/ \E w \in Workers, req \in PairOpenRequests :
          OpenShiftBegin(w, CHOOSE user \in Users : user.is_superuser, req)
    \/ \E w \in Workers : OpenShiftCommit(w)
    \/ \E w \in Workers, shift_id \in ShiftIdInputs, with_inventory \in BOOLEAN :
          CloseShiftBegin(w, CHOOSE user \in Users : user.is_superuser, shift_id,
                          with_inventory, 0)
    \/ \E w \in Workers : CloseShiftCommit(w)
    \/ \E w \in Workers : RequestFails(w)

-----------------------------------------------------------------------------
(* WebSocket connection manager, socket handlers and broadcast.  The event   *)
(* loop runs one coroutine at a time; it switches at the awaits (accept,     *)
(* send, receive, close), so each action runs from one await to the next.    *)

\* the websocket objects of the connections clients make
Sockets == {1, 2}

\* path parameter cash_register_id of the connections made
RegisterIdInputs == {0, 1, 2}

\* text frames a client sends
FrameKinds == {"ping", "other", "nonobject", "garbage"}

NoBroadcast ==
    [pc |-> "idle", identifier |-> "", used |-> 0, start |-> {}, visited |-> {},
     disconnected |-> {}, detached |-> FALSE, count |-> 0]

InitWS ==
    /\ active_connections = [k \in {} |-> {}]
    /\ connection_metadata = [k \in {} |-> None]
    /\ sock = [s \in Sockets |-> "new"]
    /\ hpc = [s \in Sockets |-> "idle"]
    /\ bc = NoBroadcast

\* store_id = cash_register.store_id if the register exists, else None
resolve_store_id(cash_register_id) ==
    IF cash_register_id \in Ids(cash_registers)
    THEN cash_registers[cash_register_id].store_id
    ELSE None

store_identifier(store_id) == IF store_id = 1 THEN "store_1" ELSE "store_2"

register_identifier(cash_register_id) ==
    IF cash_register_id = 1 THEN "cash_register_1" ELSE "cash_register_2"

\* f"cash_register_{id}" if cash_register_id else f"store_{id}" if store_id else "unknown"
connect_identifier(cash_register_id, store_id) ==
    IF cash_register_id # 0 THEN register_identifier(cash_register_id)
    ELSE IF store_id # None THEN store_identifier(store_id)
    ELSE "unknown"

\* the dict without one key
DelKey(dict, key) == [k \in (DOMAIN dict) \ {key} |-> dict[k]]

\* disconnect that keeps the set of the identifier when it becomes empty
disconnect_connections_keeps_empty(websocket) ==
    IF websocket \notin DOMAIN connection_metadata
    THEN active_connections
    ELSE LET identifier == connection_metadata[websocket].identifier
         IN  IF identifier \notin DOMAIN active_connections
             THEN active_connections
             ELSE [active_connections EXCEPT ![identifier] = @ \ {websocket}]

\* active_connections after disconnect(websocket)
disconnect_connections(websocket) ==
    IF websocket \notin DOMAIN connection_metadata
    THEN active_connections
    ELSE LET identifier == connection_metadata[websocket].identifier
         IN  IF identifier \notin DOMAIN active_connections
             THEN active_connections
             ELSE IF active_connections[identifier] \ {websocket} = {}
             THEN DelKey(active_connections, identifier)
             ELSE [active_connections EXCEPT ![identifier] = @ \ {websocket}]

\* the set a running broadcast iterates is the object it took from the dict:
\* once its key is deleted the broadcast holds a set that is no longer in it
detach_on_delete(b, connections) ==
    IF b.pc = "iter" /\ b.identifier \notin DOMAIN connections
    THEN [b EXCEPT !.detached = TRUE]
    ELSE b

disconnect(websocket) ==
    /\ active_connections' = disconnect_connections(websocket)
    /\ connection_metadata' = DelKey(connection_metadata, websocket)
    /\ bc' = detach_on_delete(bc, disconnect_connections(websocket))

\* outcome of send_json on the socket: a closed peer raises WebSocketDisconnect,
\* a socket the server closed raises RuntimeError, an open one can fail in the
\* transport
send_outcomes(websocket) ==
    CASE sock[websocket] = "open" -> {"ok", "error"}
      [] sock[websocket] = "peer_closed" -> {"disconnect"}
      [] OTHER -> {"error"}

\* websocket.close(): closes an open socket, raises on a closed one
close_socket(state) == IF state = "open" THEN "server_closed" ELSE state

\* await connection_manager.connect(...): accept and register
Connect(websocket, cash_register_id) ==
    LET store_id == resolve_store_id(cash_register_id)
        identifier == connect_identifier(cash_register_id, store_id)
        members == IF identifier \in DOMAIN active_connections
                   THEN active_connections[identifier] ELSE {}
    IN  /\ hpc[websocket] = "idle"
        /\ sock' = [sock EXCEPT ![websocket] = "open"]
        /\ active_connections' =
              [k \in (DOMAIN active_connections) \cup {identifier} |->
                  IF k = identifier THEN members \cup {websocket}
                  ELSE active_connections[k]]
        /\ connection_metadata' =
              [k \in (DOMAIN connection_metadata) \cup {websocket} |->
                  IF k = websocket
                  THEN [cash_register_id |-> cash_register_id, store_id |-> store_id,
                        identifier |-> identifier]
                  ELSE connection_metadata[k]]
        /\ hpc' = [hpc EXCEPT ![websocket] = "welcome"]
        /\ UNCHANGED <<bc, restOfWS>>

\* send_personal_message from the handler: on any failure the manager
\* deregisters the websocket and re-raises; the handler then leaves its loop
SendPersonal(websocket, outcome) ==
    /\ hpc[websocket] \in {"welcome", "ping", "pong"}
    /\ outcome \in send_outcomes(websocket)
    /\ IF outcome = "ok"
       THEN /\ hpc' = [hpc EXCEPT ![websocket] = "receive"]
            /\ UNCHANGED <<active_connections, connection_metadata, bc>>
       ELSE /\ disconnect(websocket)
            /\ hpc' = [hpc EXCEPT ![websocket] = "finally"]
    /\ UNCHANGED <<sock, restOfWS>>

\* receive_text returns a frame: ping is answered, a JSON value that is not
\* an object makes message.get raise, anything else is ignored
Receive(websocket, kind) ==
    /\ hpc[websocket] = "receive"
    /\ sock[websocket] = "open"
    /\ hpc' = [hpc EXCEPT ![websocket] =
                  CASE kind = "ping" -> "pong"
                    [] kind = "nonobject" -> "finally"
                    [] OTHER -> "receive"]
    /\ UNCHANGED <<active_connections, connection_metadata, sock, bc, restOfWS>>

\* no frame for 30 seconds: the handler probes with a ping
ReceiveTimeout(websocket) ==
    /\ hpc[websocket] = "receive"
    /\ hpc' = [hpc EXCEPT ![websocket] = "ping"]
    /\ UNCHANGED <<active_connections, connection_metadata, sock, bc, restOfWS>>

\* receive_text raises on a closed socket: the handler leaves its loop
ReceiveClosed(websocket) ==
    /\ hpc[websocket] = "receive"
    /\ sock[websocket] # "open"
    /\ hpc' = [hpc EXCEPT ![websocket] = "finally"]
    /\ UNCHANGED <<active_connections, connection_metadata, sock, bc, restOfWS>>

\* finally: disconnect_and_close, which returns at once for a websocket that
\* is no longer in connection_metadata
Finally(websocket) ==
    /\ hpc[websocket] = "finally"
    /\ IF websocket \notin DOMAIN connection_metadata
       THEN UNCHANGED <<active_connections, connection_metadata, sock, bc>>
       ELSE /\ sock' = [sock EXCEPT ![websocket] = close_socket(@)]
            /\ disconnect(websocket)
    /\ hpc' = [hpc EXCEPT ![websocket] = "done"]
    /\ UNCHANGED restOfWS

\* the client closes its end
PeerClose(websocket) ==
    /\ sock[websocket] = "open"
    /\ sock' = [sock EXCEPT ![websocket] = "peer_closed"]
    /\ UNCHANGED <<active_connections, connection_metadata, hpc, bc, restOfWS>>

\* _broadcast_to_identifier up to its loop
BroadcastStart(identifier) ==
    /\ bc.pc \in {"idle", "done", "aborted"}
    /\ bc.count < MaxBroadcasts
    /\ bc' = IF identifier \notin DOMAIN active_connections
             THEN [NoBroadcast EXCEPT !.pc = "done", !.identifier = identifier,
                                      !.count = bc.count + 1]
             ELSE [NoBroadcast EXCEPT !.pc = "iter", !.identifier = identifier,
                                      !.used = Cardinality(active_connections[identifier]),
                                      !.start = active_connections[identifier],
                                      !.count = bc.count + 1]
    /\ UNCHANGED <<active_connections, connection_metadata, sock, hpc, restOfWS>>

\* the set the loop iterates, as it is now
iterated_set ==
    IF bc.detached \/ bc.identifier \notin DOMAIN active_connections
    THEN {}
    ELSE active_connections[bc.identifier]

\* one turn of the loop over the live set: the set iterator raises
\* RuntimeError when the set's size is not the size it started with
BroadcastNext(outcome) ==
    /\ bc.pc = "iter"
    /\ IF Cardinality(iterated_set) # bc.used
       THEN /\ outcome = "ok"
            /\ bc' = [bc EXCEPT !.pc = "aborted"]
       ELSE IF iterated_set \ bc.visited = {}
       THEN /\ outcome = "ok"
            /\ bc' = [bc EXCEPT !.pc = "cleanup"]
       ELSE \E websocket \in iterated_set \ bc.visited :
               /\ outcome \in send_outcomes(websocket)
               /\ bc' = [bc EXCEPT !.visited = @ \cup {websocket},
                                   !.disconnected =
                                       IF outcome = "ok" THEN @ ELSE @ \cup {websocket}]
    /\ UNCHANGED <<active_connections, connection_metadata, sock, hpc, restOfWS>>

\* the clean-up loop: close and disconnect one failed websocket
BroadcastCleanup ==
    /\ bc.pc = "cleanup"
    /\ IF bc.disconnected = {}
       THEN /\ bc' = [bc EXCEPT !.pc = "done"]
            /\ UNCHANGED <<active_connections, connection_metadata, sock>>
       ELSE \E websocket \in bc.disconnected :
               /\ sock' = [sock EXCEPT ![websocket] = close_socket(@)]
               /\ active_connections' = disconnect_connections(websocket)
               /\ connection_metadata' = DelKey(connection_metadata, websocket)
               /\ bc' = [bc EXCEPT !.disconnected = @ \ {websocket}]
    /\ UNCHANGED <<hpc, restOfWS>>

BroadcastIdentifiers == {"cash_register_1", "store_1", "unknown"}

SendOutcomes == {"ok", "disconnect", "error"}

NextWS ==
    \/ \E websocket \in Sockets, cash_register_id \in RegisterIdInputs :
          Connect(websocket, cash_register_id)
    \/ \E websocket \in Sockets, outcome \in SendOutcomes : SendPersonal(websocket, outcome)
    \/ \E websocket \in Sockets, kind \in FrameKinds : Receive(websocket, kind)
    \/ \E websocket \in Sockets : ReceiveTimeout(websocket)
    \/ \E websocket \in Sockets : ReceiveClosed(websocket)
    \/ \E websocket \in Sockets : Finally(websocket)
    \/ \E websocket \in Sockets : PeerClose(websocket)
    \/ \E identifier \in BroadcastIdentifiers : BroadcastStart(identifier)
    \/ \E outcome \in SendOutcomes : BroadcastNext(outcome)
    \/ BroadcastCleanup

-----------------------------------------------------------------------------
(* Inventory entries: create_inventory_entry, the requests of several     *)
(* workers interleaved between the handler's reads and its commit           *)

MaxEntries == 2

InitInv ==
    /\ inventory_entries = << >>
    /\ wresp = [w \in Workers |-> NoResp]

EntryRequests == [store_id : {1, 2, 3}, entry_number : {"", "E1", "E2"}]

\* the reads and validations of create_inventory_entry: a rejection, the
\* existing entry of that number, or the row to insert
create_inventory_entry_check(user, req) ==
    LET existing == First({ e \in Ids(inventory_entries) :
                              inventory_entries[e].entry_number = req.entry_number })
    IN  IF req.store_id \notin Stores
        THEN Reject("create_entry", 404, "store_not_found")
        ELSE IF ~has_store_access(user, req.store_id)
        THEN Reject("create_entry", 403, "forbidden")
        ELSE IF req.entry_number = ""
        THEN Reject("create_entry", 400, "entry_number_required")
        ELSE IF existing # None
        THEN [op |-> "create_entry", status |-> 201, detail |-> "existing",
              id |-> existing, entry_number |-> req.entry_number]
        ELSE [op |-> "create_entry", status |-> 201, detail |-> "insert",
              store_id |-> req.store_id, entry_number |-> req.entry_number]

CreateEntryBegin(w, user, req) ==
    LET d == create_inventory_entry_check(user, req)
    IN  /\ pending[w].op = "none"
        /\ IF d.detail = "insert"
           THEN /\ pending' = [pending EXCEPT ![w] = d]
                /\ UNCHANGED wresp
           ELSE /\ wresp' = [wresp EXCEPT ![w] = d]
                /\ UNCHANGED pending
        /\ UNCHANGED <<inventory_entries, restOfInv>>

\* db.add(inventory_entry); db.commit(); return inventory_entry
CreateEntryCommit(w) ==
    /\ pending[w].op = "create_entry"
    /\ Len(inventory_entries) < MaxEntries
    /\ inventory_entries' = Append(inventory_entries,
          [store_id |-> pending[w].store_id, entry_number |-> pending[w].entry_number])
    /\ wresp' = [wresp EXCEPT ![w] =
          [op |-> "create_entry", status |-> 201, detail |-> "created",
           id |-> Len(inventory_entries) + 1, entry_number |-> pending[w].entry_number]]
    /\ pending' = [pending EXCEPT ![w] = NoPending]
    /\ UNCHANGED restOfInv

NextInv ==
    \/ \E w \in Workers, user \in Users, req \in EntryRequests :
          CreateEntryBegin(w, user, req)
    \/ \E w \in Workers : CreateEntryCommit(w)

-----------------------------------------------------------------------------
(* Cash register registration: register_cash_register, one request at a time *)

MaxRegisters == 3

\* a string is a sequence of characters; these are the letters that occur
LowerChars ==
    << "a","b","c","d","e","f","g","h","i","j","k","l","m","n","o","p","q","r",
       "s","t","u","v","w","x","y","z" >>
UpperChars ==
    << "A","B","C","D","E","F","G","H","I","J","K","L","M","N","O","P","Q","R",
       "S","T","U","V","W","X","Y","Z" >>

\* str.upper() of one character
upper_char(c) ==
    IF \E i \in DOMAIN LowerChars : LowerChars[i] = c
    THEN UpperChars[CHOOSE i \in DOMAIN LowerChars : LowerChars[i] = c]
    ELSE c

RECURSIVE str_upper(_)
str_upper(chars) ==
    IF chars = << >> THEN "" ELSE upper_char(Head(chars)) \o str_upper(Tail(chars))

\* the code without the upper-casing
cash_register_code_as_given(registration_code) == "CR-" \o str_join(registration_code)

\* cash_register_code = f"CR-{cashier_data.registration_code.upper()}"
cash_register_code(registration_code) == "CR-" \o str_upper(registration_code)

RegisterRequests ==
    [store_id : {1, 2, 3}, name : {"Till 1", "Bar"},
     registration_code : { <<"t", "1">>, <<"T", "1">>, <<"a", "1">> }]

RegisterCashRegister(user, req) ==
    LET code == cash_register_code(req.registration_code)
        existing_cr == First({ c \in Ids(cash_registers) : cash_registers[c].code = code })
    IN  /\ IF req.store_id \notin Stores
           THEN /\ resp' = Reject("register", 404, "store_not_found") @@ [request |-> req]
                /\ UNCHANGED cash_registers
           ELSE IF ~has_store_access(user, req.store_id)
           THEN /\ resp' = Reject("register", 403, "forbidden") @@ [request |-> req]
                /\ UNCHANGED cash_registers
           ELSE IF existing_cr # None
           THEN /\ cash_registers' = [cash_registers EXCEPT
                      ![existing_cr].store_id = req.store_id,
                      ![existing_cr].name = req.name,
                      ![existing_cr].is_active = TRUE]
                /\ resp' = [op |-> "register", status |-> 201, detail |-> "updated",
                            id |-> existing_cr, code |-> code, request |-> req]
           ELSE /\ Len(cash_registers) < MaxRegisters
                /\ cash_registers' = Append(cash_registers,
                      [store_id |-> req.store_id, name |-> req.name, code |-> code,
                       is_active |-> TRUE])
                /\ resp' = [op |-> "register", status |-> 201, detail |-> "created",
                            id |-> Len(cash_registers) + 1, code |-> code, request |-> req]
        /\ UNCHANGED restOfReg

NextReg == \E user \in Users, req \in RegisterRequests : RegisterCashRegister(user, req)

-----------------------------------------------------------------------------
(* Orders: create_order and update_order, one request at a time *)

MaxOrders == 2
MaxClock == 2

InitOrder ==
    /\ orders = << >>
    /\ order_items = << >>
    /\ ever_paid = {}
    /\ clock = 1

Products == {1}

\* int(now.strftime("%Y%m%d%H%M%S")) in decimal digits; the clock is the seconds
timestamp_digits(now) == <<2, 0, 2, 6, 1, 1, 0, 2, 1, 2, 0, 0, 0, now>>

\* number // 36 and number % 36 of a number in decimal digits
RECURSIVE divmod36(_, _, _)
divmod36(digits, remainder, quotient) ==
    IF digits = << >> THEN <<quotient, remainder>>
    ELSE divmod36(Tail(digits), (remainder * 10 + Head(digits)) % 36,
                  Append(quotient, (remainder * 10 + Head(digits)) \div 36))

\* encode_base36 of a number in decimal digits
RECURSIVE encode_base36_digits(_)
encode_base36_digits(digits) ==
    IF \A i \in DOMAIN digits : digits[i] = 0 THEN ""
    ELSE encode_base36_digits(divmod36(digits, 0, << >>)[1])
            \o BASE36_CHARS[divmod36(digits, 0, << >>)[2] + 1]

\* encode_base36(timestamp) for each reading of the clock
timestamp_base36 ==
    [now \in 1..MaxClock |-> encode_base36_digits(timestamp_digits(now))]

invoice_doc_prefix(store_id) ==
    LET rows == { d \in DocumentPrefixes :
                    d.store_id = store_id /\ d.doc_type = "invoice" /\ d.is_active }
    IN  IF rows = {} THEN "" ELSE (CHOOSE d \in rows : TRUE).prefix

generate_order_number(register_code, store_id, now) ==
    invoice_doc_prefix(store_id) \o register_code \o "-"
        \o timestamp_base36[now]

\* create_order binds the request's status to the name status, so each
\* status.HTTP_... of its raise statements fails with AttributeError and the
\* request ends as an internal server error
create_order_raise(status_name, detail) ==
    Reject("create_order", 500, detail)

orders_with_number(order_number) ==
    { o \in Ids(orders) : orders[o].order_number = order_number }

\* the reads and validations of create_order: a failure, or the order to add
create_order_check(user, req) ==
    LET cash_register_id ==
            IF req.cash_register_id = None /\ req.shift_id # None
               /\ open_histories_of_shift(req.shift_id) # {}
            THEN histories[First(open_histories_of_shift(req.shift_id))].cash_register_id
            ELSE req.cash_register_id
    IN  IF req.store_id \notin Stores
        THEN create_order_raise("HTTP_404_NOT_FOUND", "store_not_found")
        ELSE IF ~has_store_access(user, req.store_id)
        THEN create_order_raise("HTTP_403_FORBIDDEN", "forbidden")
        ELSE IF req.shift_id # None /\ req.shift_id \notin Ids(shifts)
        THEN create_order_raise("HTTP_404_NOT_FOUND", "shift_not_found")
        ELSE IF req.shift_id # None /\ shifts[req.shift_id].store_id # req.store_id
        THEN create_order_raise("HTTP_400_BAD_REQUEST", "shift_of_other_store")
        ELSE IF cash_register_id # None /\ cash_register_id \notin Ids(cash_registers)
        THEN create_order_raise("HTTP_404_NOT_FOUND", "register_not_found")
        ELSE IF cash_register_id # None
                /\ cash_registers[cash_register_id].store_id # req.store_id
        THEN create_order_raise("HTTP_400_BAD_REQUEST", "register_of_other_store")
        ELSE IF req.order_number # "" /\ orders_with_number(req.order_number) # {}
        THEN create_order_raise("HTTP_400_BAD_REQUEST", "number_exists")
        ELSE IF req.order_number = "" /\ cash_register_id = None
        THEN create_order_raise("HTTP_400_BAD_REQUEST", "register_required")
        ELSE LET order_number ==
                    IF req.order_number # "" THEN req.order_number
                    ELSE generate_order_number(cash_registers[cash_register_id].code,
                                               req.store_id, clock)
             IN  IF orders_with_number(order_number) # {}
                 THEN Reject("create_order", 500, "integrity_error")
                 ELSE IF \E i \in DOMAIN req.items : req.items[i] \notin Products
                 THEN create_order_raise("HTTP_404_NOT_FOUND", "product_not_found")
                 ELSE [op |-> "create_order", status |-> 201, detail |-> "created",
                       row |-> [store_id |-> req.store_id, shift_id |-> req.shift_id,
                                cash_register_id |-> cash_register_id,
                                order_number |-> order_number, status |-> req.status,
                                paid_at |-> IF req.status = "paid" THEN clock ELSE None]]

OrderRequests ==
    [store_id : {1, 3}, cash_register_id : {None, 1}, shift_id : {None},
     order_number : {"", "N1"}, status : {"open", "paid"},
     items : { <<1>>, <<9>> }]

CreateOrder(user, req) ==
    LET d == create_order_check(user, req)
    IN  /\ IF d.status = 201
           THEN /\ Len(orders) < MaxOrders
                /\ orders' = Append(orders, d.row)
                /\ order_items' = order_items \o
                      [i \in DOMAIN req.items |->
                          [order_id |-> Len(orders) + 1, product_id |-> req.items[i]]]
                /\ ever_paid' = IF req.status = "paid"
                                THEN ever_paid \cup {Len(orders) + 1} ELSE ever_paid
           ELSE UNCHANGED <<orders, order_items, ever_paid>>
        /\ resp' = [op |-> "create_order", status |-> d.status, detail |-> d.detail,
                    id |-> IF d.status = 201 THEN Len(orders) + 1 ELSE None,
                    order_number |-> req.order_number]
        /\ UNCHANGED <<clock, restOfOrder>>

\* update that sets the status and never stamps paid_at
update_order_row_unstamped(order, new_status) ==
    IF new_status = "" THEN order ELSE [order EXCEPT !.status = new_status]

\* order.status = order_update.status; paid_at is stamped on the first paid
update_order_row(order, new_status) ==
    IF new_status = "" THEN order
    ELSE [order EXCEPT !.status = new_status,
                       !.paid_at = IF new_status = "paid" /\ order.paid_at = None
                                   THEN clock ELSE @]

\* the status of an OrderUpdate; "" stands for a status left out
UpdateStatuses == {"", "paid", "cancelled"}

UpdateOrder(user, order_id, new_status) ==
    /\ IF order_id \notin Ids(orders)
       THEN /\ resp' = Reject("update_order", 404, "order_not_found") @@ [id |-> order_id]
            /\ UNCHANGED <<orders, ever_paid>>
       ELSE IF ~has_store_access(user, orders[order_id].store_id)
       THEN /\ resp' = Reject("update_order", 403, "forbidden") @@ [id |-> order_id]
            /\ UNCHANGED <<orders, ever_paid>>
       ELSE /\ orders' = [orders EXCEPT ![order_id] = update_order_row(@, new_status)]
            /\ ever_paid' = IF new_status = "paid"
                            THEN ever_paid \cup {order_id} ELSE ever_paid
            /\ resp' = [op |-> "update_order", status |-> 200, detail |-> "updated",
                        id |-> order_id]
    /\ UNCHANGED <<order_items, clock, restOfOrder>>

\* a second passes
Tick ==
    /\ clock < MaxClock
    /\ clock' = clock + 1
    /\ UNCHANGED <<orders, order_items, ever_paid, resp, restOfOrder>>

NextOrder ==
    \/ \E user \in Users, req \in OrderRequests : CreateOrder(user, req)
    \/ \E user \in Users, order_id \in 1..(MaxOrders + 1), new_status \in UpdateStatuses :
          UpdateOrder(user, order_id, new_status)
    \/ Tick

-----------------------------------------------------------------------------
(* Sales reports: get_sales_summary and get_sales_details over the paid      *)
(* orders, with shifts opened and closed and orders created in between       *)

SalesFilters ==
    [store_id : {None, 1, 2}, cash_register_id : {None, 1},
     filter_mode : {"today", "current_shift", "last_shift", "bogus"}]

\* the failure get_date_range_for_filter_mode raises for the filter, if any
date_range_error(op, filter) ==
    IF filter.filter_mode = "today" THEN NoResp
    ELSE IF filter.filter_mode \notin {"current_shift", "last_shift"}
    THEN Reject(op, 400, "invalid_filter_mode")
    ELSE IF filter.cash_register_id = None
    THEN Reject(op, 400, "register_required")
    ELSE IF filter.cash_register_id \notin Ids(cash_registers)
    THEN Reject(op, 404, "register_not_found")
    ELSE NoResp

\* the shifts the query for the current or the last shift can return: the
\* open shifts of the register's store, or its closed shifts closed last
filter_shifts(filter) ==
    IF filter.filter_mode \notin {"current_shift", "last_shift"}
       \/ filter.cash_register_id \notin Ids(cash_registers)
    THEN {}
    ELSE LET store_id == cash_registers[filter.cash_register_id].store_id
             closed == { s \in Ids(shifts) :
                           shifts[s].store_id = store_id /\ shifts[s].status = "closed" }
         IN  IF filter.filter_mode = "current_shift"
             THEN { s \in Ids(shifts) :
                      shifts[s].store_id = store_id /\ shifts[s].status = "open" }
             ELSE { s \in closed :
                      \A t \in closed : shifts[t].closed_at <= shifts[s].closed_at }

\* build_sales_query: the ids of the orders the query selects
build_sales_query(user, filter, shift_id) ==
    { o \in Ids(orders) :
        /\ orders[o].status = "paid"
        /\ IF filter.store_id # None THEN orders[o].store_id = filter.store_id
           ELSE IF ~user.is_superuser /\ user.store_id # None
           THEN orders[o].store_id = user.store_id
           ELSE TRUE
        /\ filter.cash_register_id # None
              => orders[o].cash_register_id = filter.cash_register_id
        /\ IF shift_id # None THEN orders[o].shift_id = shift_id
           ELSE IF filter.filter_mode = "today" THEN orders[o].paid_at # None
           ELSE TRUE }

\* the response of a sales endpoint; the summary is empty when a shift filter
\* finds no shift
sales_response(op, user, filter, shift_id) ==
    IF date_range_error(op, filter).op # "none"
    THEN date_range_error(op, filter) @@ [user_id |-> user.id, order_ids |-> {}]
    ELSE IF filter.store_id # None /\ ~has_store_access(user, filter.store_id)
    THEN Reject(op, 403, "forbidden") @@ [user_id |-> user.id, order_ids |-> {}]
    ELSE [op |-> op, status |-> 200, detail |-> "ok", user_id |-> user.id,
          order_ids |-> IF /\ op = "sales_summary"
                           /\ shift_id = None
                           /\ filter.filter_mode \in {"current_shift", "last_shift"}
                        THEN {}
                        ELSE build_sales_query(user, filter, shift_id)]

ShiftChoices(filter) ==
    IF filter_shifts(filter) = {} THEN {None} ELSE filter_shifts(filter)

GetSalesSummary(user, filter) ==
    /\ \E shift_id \in ShiftChoices(filter) :
          resp' = sales_response("sales_summary", user, filter, shift_id)
    /\ UNCHANGED <<orders, order_items, ever_paid, clock, restOfOrder>>

GetSalesDetails(user, filter) ==
    /\ \E shift_id \in ShiftChoices(filter) :
          resp' = sales_response("sales_details", user, filter, shift_id)
    /\ UNCHANGED <<orders, order_items, ever_paid, clock, restOfOrder>>

Superuser == CHOOSE user \in Users : user.is_superuser

SalesOrderRequests ==
    [store_id : {1, 2}, cash_register_id : {None, 1}, shift_id : {None, 1},
     order_number : {"N1", "N2"}, status : {"paid"}, items : { <<1>> }]

SalesShiftRequest ==
    [cash_register_id |-> 1, cash_register_code |-> "", shift_number |-> "",
     has_inventory_balance |-> TRUE]

NextSales ==
    \/ \E req \in SalesOrderRequests : CreateOrder(Superuser, req)
    \/ OpenShift(Superuser, SalesShiftRequest)
    \/ \E shift_id \in ShiftIdInputs : CloseShift(Superuser, shift_id, FALSE, 0)
    \/ \E user \in Users, filter \in SalesFilters : GetSalesSummary(user, filter)
    \/ \E user \in Users, filter \in SalesFilters : GetSalesDetails(user, filter)

-----------------------------------------------------------------------------
(* Inventory transactions: create_inventory_transaction and                 *)
(* update_inventory_transaction, one request at a time                      *)

MaxTransactions == 2

Materials == {1}

InitTx == inventory_transactions = << >>

\* the body of a create request; quantity 0 stands for a quantity that is
\* absent or not positive
TransactionRequests ==
    [entry_id : {None, 1}, entry_number : {"", "E1"},
     material_id : {None} \cup Materials, product_id : {None} \cup Products,
     quantity : {0, 1}]

\* the entry a create request names: by entry_number when no entry_id is
\* given, else by entry_id
transaction_entry(req) ==
    IF req.entry_id = None /\ req.entry_number # ""
    THEN First({ e \in Ids(inventory_entries) :
                   inventory_entries[e].entry_number = req.entry_number })
    ELSE IF req.entry_id \in Ids(inventory_entries) THEN req.entry_id ELSE None

\* the reads and validations of create_inventory_transaction: a rejection,
\* or the row to insert
create_inventory_transaction_check(user, req) ==
    LET entry == transaction_entry(req)
    IN  IF req.entry_id = None /\ req.entry_number = ""
        THEN Reject("create_transaction", 400, "entry_required")
        ELSE IF entry = None
        THEN Reject("create_transaction", 404, "entry_not_found")
        ELSE IF ~has_store_access(user, inventory_entries[entry].store_id)
        THEN Reject("create_transaction", 403, "forbidden")
        ELSE IF req.material_id = None /\ req.product_id = None
        THEN Reject("create_transaction", 400, "material_or_product_required")
        ELSE IF req.quantity <= 0
        THEN Reject("create_transaction", 400, "quantity_not_positive")
        ELSE [op |-> "create_transaction", status |-> 201, detail |-> "created",
              row |-> [entry_id |-> entry, material_id |-> req.material_id,
                       product_id |-> req.product_id, quantity |-> req.quantity]]

CreateTransaction(user, req) ==
    LET d == create_inventory_transaction_check(user, req)
    IN  /\ d.status = 201 => Len(inventory_transactions) < MaxTransactions
        /\ inventory_transactions' =
              IF d.status = 201 THEN Append(inventory_transactions, d.row)
              ELSE inventory_transactions
        /\ resp' = d
        /\ UNCHANGED restOfTx

\* the body of an update request.  as_dict: the body reached the handler as
\* a dict, where a key that is present is assigned even when its value is
\* null; otherwise as an InventoryTransactionUpdate, where only the fields
\* that are not None are assigned.
TransactionUpdates ==
    { u \in [as_dict : BOOLEAN, has_material_id : BOOLEAN, has_product_id : BOOLEAN,
              material_id : {None} \cup Materials, product_id : {None} \cup Products,
              quantity : {None, 2}] :
        /\ ~u.has_material_id => u.material_id = None
        /\ ~u.has_product_id => u.product_id = None }

\* the assignments of update_inventory_transaction to the row
update_transaction_row(row, u) ==
    LET assigned(has, value) == IF u.as_dict THEN has ELSE value # None
    IN  [row EXCEPT
           !.material_id = IF assigned(u.has_material_id, u.material_id)
                           THEN u.material_id ELSE @,
           !.product_id = IF assigned(u.has_product_id, u.product_id)
                          THEN u.product_id ELSE @,
           !.quantity = IF u.quantity # None THEN u.quantity ELSE @]

UpdateTransaction(user, transaction_id, u) ==
    LET found == transaction_id \in Ids(inventory_transactions)
        entry == inventory_transactions[transaction_id].entry_id
        d == IF ~found
             THEN Reject("update_transaction", 404, "transaction_not_found")
             ELSE IF entry \notin Ids(inventory_entries)
             THEN Reject("update_transaction", 404, "entry_not_found")
             ELSE IF ~has_store_access(user, inventory_entries[entry].store_id)
             THEN Reject("update_transaction", 403, "forbidden")
             ELSE [op |-> "update_transaction", status |-> 200, detail |-> "updated"]
    IN  /\ inventory_transactions' =
              IF d.status = 200
              THEN [inventory_transactions EXCEPT
                      ![transaction_id] = update_transaction_row(@, u)]
              ELSE inventory_transactions
        /\ resp' = d
        /\ UNCHANGED restOfTx

TransactionIdInputs == 1..(MaxTransactions + 1)

\* the entries the transactions belong to are created by worker 1
NextTx ==
    \/ \E req \in { r \in EntryRequests : r.entry_number = "E1" } :
          CreateEntryBegin(1, Superuser, req)
    \/ CreateEntryCommit(1)
    \/ \E user \in Users, req \in TransactionRequests : CreateTransaction(user, req)
    \/ \E user \in Users, transaction_id \in TransactionIdInputs,
          u \in TransactionUpdates : UpdateTransaction(user, transaction_id, u)

-----------------------------------------------------------------------------
(* Hook registry: HookRegistry.register and HookRegistry.execute.          *)
(* A value passed along a chain is the sequence of the names of the         *)
(* handlers that have changed it; the data of a call is the empty sequence. *)
(* A handler is known by what a call of it does: it returns its argument    *)
(* changed, it returns None, or it raises.                                  *)

MaxHandlers == 3

HookTypes == {"before", "after", "filter", "action"}

NoneValue == <<"None">>

\* the handlers that get registered: two that return their argument
\* changed, one that returns nothing, one that raises
Handlers == {"prefix", "discount", "silent", "failing"}

Priorities == {50, 100}

handler_call(handler, arg) ==
    CASE handler = "silent" -> [raises |-> FALSE, value |-> NoneValue]
      [] handler = "failing" -> [raises |-> TRUE, value |-> NoneValue]
      [] OTHER -> [raises |-> FALSE, value |-> Append(arg, handler)]

NoExec == [hook_type |-> "none", data |-> << >>, result |-> << >>, calls |-> << >>,
           handlers |-> << >>, propagated |-> FALSE]

InitHooks ==
    /\ hooks = [hook_type \in HookTypes |-> << >>]
    /\ hook_exec = NoExec

\* cls._hooks[key].append(...); cls._hooks[key].sort(key=priority): the sort
\* is stable, so the new entry lands behind the entries of its priority
sorted_insert(list, entry) ==
    LET before == SelectSeq(list, LAMBDA e : e.priority <= entry.priority)
        after == SelectSeq(list, LAMBDA e : e.priority > entry.priority)
    IN  before \o <<entry>> \o after

registered == Len(hooks["before"]) + Len(hooks["after"])
                + Len(hooks["filter"]) + Len(hooks["action"])

Register(hook_type, handler, priority) ==
    /\ registered < MaxHandlers
    /\ hooks' = [hooks EXCEPT ![hook_type] =
                   sorted_insert(@, [handler |-> handler, priority |-> priority])]
    /\ UNCHANGED <<hook_exec, restOfHooks>>

\* the loop of execute from handler i on; a handler's exception is caught
\* there, so it leaves result as it was and never reaches the caller
RECURSIVE run_handlers_reraising(_, _, _, _, _, _)
run_handlers_reraising(hook_type, handlers, i, data, result, calls) ==
    IF i > Len(handlers)
    THEN [result |-> result, calls |-> calls, propagated |-> FALSE]
    ELSE LET out == handler_call(handlers[i].handler, result)
             called == Append(calls, [handler |-> handlers[i].handler, arg |-> result,
                                      raises |-> out.raises, value |-> out.value])
         IN  IF out.raises
             THEN [result |-> result, calls |-> called, propagated |-> TRUE]
             ELSE IF hook_type \in {"before", "filter"}
             THEN run_handlers_reraising(hook_type, handlers, i + 1, data,
                     IF out.value = NoneValue THEN data ELSE out.value, called)
             ELSE run_handlers_reraising(hook_type, handlers, i + 1, data, result, called)

RECURSIVE run_handlers(_, _, _, _, _, _)
run_handlers(hook_type, handlers, i, data, result, calls) ==
    IF i > Len(handlers)
    THEN [result |-> result, calls |-> calls, propagated |-> FALSE]
    ELSE LET out == handler_call(handlers[i].handler, result)
             called == Append(calls, [handler |-> handlers[i].handler, arg |-> result,
                                      raises |-> out.raises, value |-> out.value])
         IN  IF out.raises
             THEN run_handlers(hook_type, handlers, i + 1, data, result, called)
             ELSE IF hook_type \in {"before", "filter"}
             THEN run_handlers(hook_type, handlers, i + 1, data,
                     IF out.value = NoneValue THEN data ELSE out.value, called)
             ELSE run_handlers(hook_type, handlers, i + 1, data, result, called)

execute(hook_type, data) ==
    LET handlers == hooks[hook_type]
        run == run_handlers(hook_type, handlers, 1, data, data, << >>)
    IN  [hook_type |-> hook_type, data |-> data, result |-> run.result,
         calls |-> run.calls, handlers |-> handlers, propagated |-> run.propagated]

Execute(hook_type, data) ==
    /\ hook_exec' = execute(hook_type, data)
    /\ UNCHANGED <<hooks, restOfHooks>>

\* the data of a call: a value no handler has touched
HookData == { << >> }

NextHooks ==
    \/ \E hook_type \in HookTypes, handler \in Handlers, priority \in Priorities :
          Register(hook_type, handler, priority)
    \/ \E hook_type \in HookTypes, data \in HookData : Execute(hook_type, data)

-----------------------------------------------------------------------------
(* Notification service: notify_entity_update schedules _broadcast_message  *)
(* as a task of the event loop; the product image handlers call it after    *)
(* their commit.  One notification is in flight at a time.                  *)

MaxNotifications == 1
MaxImages == 1

NoNotification ==
    [pc |-> "none", entity_id |-> None, store_id |-> None, cash_register_id |-> None,
     audience |-> {}, remaining |-> {}, delivered |-> {}, count |-> 0]

InitCatalog ==
    /\ products = << [code |-> "P1", product_type |-> "kit", deleted |-> FALSE] >>
    /\ kit_components = << >>

InitNotify ==
    /\ product_images = << >>
    /\ notif = NoNotification

\* loop.create_task(...) or _executor.submit(...): the task is scheduled, or
\* scheduling raises and notify_entity_update logs the error
ScheduleOutcomes == {"scheduled", "schedule_error"}

notify_entity_update(entity_id, store_id, cash_register_id, outcome) ==
    [pc |-> IF outcome = "scheduled" THEN "scheduled" ELSE "unscheduled",
     entity_id |-> entity_id, store_id |-> store_id,
     cash_register_id |-> cash_register_id,
     audience |-> {}, remaining |-> {}, delivered |-> {}, count |-> notif.count + 1]

can_notify == notif.pc \notin {"scheduled", "running"} /\ notif.count < MaxNotifications

\* a call of the service by any other caller
NotifyEntityUpdate(entity_id, store_id, cash_register_id, outcome) ==
    /\ can_notify
    /\ notif' = notify_entity_update(entity_id, store_id, cash_register_id, outcome)
    /\ UNCHANGED <<product_images, resp, wsVars, restOfNotify>>

\* the identifiers _broadcast_message broadcasts to; broadcast_to_all takes
\* list(active_connections.keys())
broadcast_targets(store_id, cash_register_id) ==
    IF cash_register_id # None THEN {register_identifier(cash_register_id)}
    ELSE IF store_id # None THEN {store_identifier(store_id)}
    ELSE DOMAIN active_connections

\* the task starts: _broadcast_message up to its first broadcast; audience
\* keeps the connections that are registered at that moment
BroadcastMessage ==
    /\ notif.pc = "scheduled"
    /\ notif' = [notif EXCEPT !.pc = "running",
                   !.audience = DOMAIN connection_metadata,
                   !.remaining = broadcast_targets(notif.store_id, notif.cash_register_id)]
    /\ bc' = NoBroadcast
    /\ UNCHANGED <<active_connections, connection_metadata, sock, hpc, product_images,
                   resp, restOfNotify>>

\* the websockets the broadcast that just ended has sent the message to
sent_to == bc.visited \ bc.disconnected

\* between two broadcasts of the task: the next identifier's
\* _broadcast_to_identifier starts, or the task ends; an exception out of a
\* broadcast is caught and logged by _broadcast_message and ends the task
BroadcastToTargets ==
    /\ notif.pc = "running"
    /\ bc.pc \in {"idle", "done", "aborted"}
    /\ IF bc.pc = "aborted"
       THEN /\ notif' = [notif EXCEPT !.pc = "failed", !.remaining = {},
                                      !.delivered = @ \cup sent_to]
            /\ bc' = NoBroadcast
       ELSE IF notif.remaining = {}
       THEN /\ notif' = [notif EXCEPT !.pc = "done", !.delivered = @ \cup sent_to]
            /\ bc' = NoBroadcast
       ELSE \E identifier \in notif.remaining :
               /\ notif' = [notif EXCEPT !.remaining = @ \ {identifier},
                                         !.delivered = @ \cup sent_to]
               /\ bc' = IF identifier \notin DOMAIN active_connections
                        THEN [NoBroadcast EXCEPT !.pc = "done", !.identifier = identifier]
                        ELSE [NoBroadcast EXCEPT
                                !.pc = "iter", !.identifier = identifier,
                                !.used = Cardinality(active_connections[identifier]),
                                !.start = active_connections[identifier]]
    /\ UNCHANGED <<active_connections, connection_metadata, sock, hpc, product_images,
                   resp, restOfNotify>>

\* the handler's answer when notify_entity_update has returned or raised:
\* the handlers wrap the call in try/except and answer as if it succeeded
product_image_response_unguarded(status, outcome) ==
    IF outcome = "schedule_error" THEN 500 ELSE status

product_image_response(status, outcome) == status

live_product(product_id) ==
    product_id \in Ids(products) /\ ~products[product_id].deleted

\* ProductImage rows of the product lose is_primary when another becomes primary
unset_primary(images, product_id) ==
    [i \in Ids(images) |->
        IF images[i].product_id = product_id
        THEN [images[i] EXCEPT !.is_primary = FALSE] ELSE images[i]]

CreateProductImage(product_id, valid, is_primary, outcome) ==
    /\ can_notify
    /\ IF ~live_product(product_id)
       THEN /\ resp' = Reject("create_product_image", 404, "product_not_found")
            /\ UNCHANGED <<product_images, notif>>
       ELSE IF ~valid
       THEN /\ resp' = Reject("create_product_image", 400, "invalid_image")
            /\ UNCHANGED <<product_images, notif>>
       ELSE /\ Len(product_images) < MaxImages
            /\ product_images' =
                  Append(IF is_primary THEN unset_primary(product_images, product_id)
                         ELSE product_images,
                         [product_id |-> product_id, is_primary |-> is_primary,
                          deleted |-> FALSE])
            /\ notif' = notify_entity_update(product_id, None, None, outcome)
            /\ resp' = [op |-> "create_product_image",
                        status |-> product_image_response(201, outcome),
                        detail |-> "created", id |-> Len(product_images) + 1]
    /\ UNCHANGED <<wsVars, restOfNotify>>

UpdateProductImage(image_id, is_primary, outcome) ==
    /\ can_notify
    /\ IF image_id \notin Ids(product_images) \/ product_images[image_id].deleted
       THEN /\ resp' = Reject("update_product_image", 404, "image_not_found")
            /\ UNCHANGED <<product_images, notif>>
       ELSE /\ product_images' =
                  IF is_primary
                  THEN [unset_primary(product_images, product_images[image_id].product_id)
                          EXCEPT ![image_id].is_primary = TRUE]
                  ELSE product_images
            /\ notif' = notify_entity_update(product_images[image_id].product_id,
                                             None, None, outcome)
            /\ resp' = [op |-> "update_product_image",
                        status |-> product_image_response(200, outcome),
                        detail |-> "updated", id |-> image_id]
    /\ UNCHANGED <<wsVars, restOfNotify>>

ImageIdInputs == 1..(MaxImages + 1)

ProductIdInputs == {1, 2}

NextNotify ==
    \/ \E websocket \in Sockets, cash_register_id \in RegisterIdInputs :
          Connect(websocket, cash_register_id)
    \/ \E websocket \in Sockets, outcome \in SendOutcomes : SendPersonal(websocket, outcome)
    \/ \E websocket \in Sockets : Finally(websocket)
    \/ \E websocket \in Sockets : PeerClose(websocket)
    \/ \E store_id \in {None, 1}, cash_register_id \in {None, 1},
          outcome \in ScheduleOutcomes :
          NotifyEntityUpdate(1, store_id, cash_register_id, outcome)
    \/ \E product_id \in ProductIdInputs, valid \in BOOLEAN, is_primary \in BOOLEAN,
          outcome \in ScheduleOutcomes :
          CreateProductImage(product_id, valid, is_primary, outcome)
    \/ \E image_id \in ImageIdInputs, is_primary \in BOOLEAN,
          outcome \in ScheduleOutcomes :
          UpdateProductImage(image_id, is_primary, outcome)
    \/ BroadcastMessage
    \/ BroadcastToTargets
    \/ \E outcome \in SendOutcomes : BroadcastNext(outcome)
    \/ BroadcastCleanup

-----------------------------------------------------------------------------
(* Catalog: the products and kit_components handlers, one request at a     *)
(* time.  A deleted row stays in its table as a tombstone, so that ids are  *)
(* never reused.                                                            *)

MaxProducts == 2
MaxComponents == 2

ProductTypes == {"sales_inventory", "kit"}

ProductCodes == {"", "P1"}

products_with_code(code) ==
    { p \in Ids(products) : ~products[p].deleted /\ products[p].code = code }

\* ProductCreate: code is optional, product_type has a default
ProductCreates == [code : ProductCodes, product_type : ProductTypes]

CreateProduct(req) ==
    /\ IF req.code # "" /\ products_with_code(req.code) # {}
       THEN /\ resp' = Reject("create_product", 400, "code_exists")
            /\ UNCHANGED products
       ELSE /\ Len(products) < MaxProducts
            /\ products' = Append(products, [code |-> req.code,
                                             product_type |-> req.product_type,
                                             deleted |-> FALSE])
            /\ resp' = [op |-> "create_product", status |-> 201, detail |-> "created",
                        id |-> Len(products) + 1]
    /\ UNCHANGED <<kit_components, notifVars, restOfCatalog>>

\* ProductUpdate: "" is a field the request leaves unset
ProductUpdates == [code : ProductCodes, product_type : ProductTypes \cup {""}]

\* model_dump(exclude_unset=True) and setattr of every field that is set
update_product_row(product, req) ==
    [product EXCEPT
       !.code = IF req.code # "" THEN req.code ELSE @,
       !.product_type = IF req.product_type # "" THEN req.product_type ELSE @]

UpdateProduct(product_id, req) ==
    /\ IF ~live_product(product_id)
       THEN /\ resp' = Reject("update_product", 404, "product_not_found")
            /\ UNCHANGED products
       ELSE IF /\ req.code # ""
               /\ req.code # products[product_id].code
               /\ products_with_code(req.code) # {}
       THEN /\ resp' = Reject("update_product", 400, "code_exists")
            /\ UNCHANGED products
       ELSE /\ products' = [products EXCEPT ![product_id] = update_product_row(@, req)]
            /\ resp' = [op |-> "update_product", status |-> 200, detail |-> "updated",
                        id |-> product_id]
    /\ UNCHANGED <<kit_components, notifVars, restOfCatalog>>

\* db.delete(product): the ORM cascades to the product's images and to the
\* kit components on either side
DeleteProduct(product_id) ==
    /\ IF ~live_product(product_id)
       THEN /\ resp' = Reject("delete_product", 404, "product_not_found")
            /\ UNCHANGED <<products, kit_components, product_images>>
       ELSE IF \E i \in Ids(order_items) : order_items[i].product_id = product_id
       THEN /\ resp' = Reject("delete_product", 400, "used_in_orders")
            /\ UNCHANGED <<products, kit_components, product_images>>
       ELSE /\ products' = [products EXCEPT ![product_id].deleted = TRUE]
            /\ kit_components' =
                  [k \in Ids(kit_components) |->
                      IF product_id \in {kit_components[k].product_id,
                                         kit_components[k].component_id}
                      THEN [kit_components[k] EXCEPT !.deleted = TRUE]
                      ELSE kit_components[k]]
            /\ product_images' =
                  [i \in Ids(product_images) |->
                      IF product_images[i].product_id = product_id
                      THEN [product_images[i] EXCEPT !.deleted = TRUE]
                      ELSE product_images[i]]
            /\ resp' = [op |-> "delete_product", status |-> 204, detail |-> "deleted",
                        id |-> product_id]
    /\ UNCHANGED <<notif, restOfCatalog>>

KitComponentCreates == [product_id : ProductIdInputs, component_id : ProductIdInputs]

create_kit_component_check(req) ==
    IF ~live_product(req.product_id)
    THEN Reject("create_kit_component", 404, "product_not_found")
    ELSE IF products[req.product_id].product_type # "kit"
    THEN Reject("create_kit_component", 400, "not_a_kit")
    ELSE IF ~live_product(req.component_id)
    THEN Reject("create_kit_component", 404, "component_not_found")
    ELSE IF req.product_id = req.component_id
    THEN Reject("create_kit_component", 400, "self_reference")
    ELSE IF \E k \in Ids(kit_components) :
               /\ ~kit_components[k].deleted
               /\ kit_components[k].product_id = req.product_id
               /\ kit_components[k].component_id = req.component_id
    THEN Reject("create_kit_component", 400, "component_exists")
    ELSE [op |-> "create_kit_component", status |-> 201, detail |-> "created"]

CreateKitComponent(req) ==
    LET d == create_kit_component_check(req)
    IN  /\ d.status = 201 => Len(kit_components) < MaxComponents
        /\ kit_components' =
              IF d.status = 201
              THEN Append(kit_components,
                          [product_id |-> req.product_id, component_id |-> req.component_id,
                           quantity |-> 1, deleted |-> FALSE])
              ELSE kit_components
        /\ resp' = d
        /\ UNCHANGED <<products, notifVars, restOfCatalog>>

live_component(component_id) ==
    component_id \in Ids(kit_components) /\ ~kit_components[component_id].deleted

\* KitComponentUpdate carries the quantity only
UpdateKitComponent(component_id, quantity) ==
    /\ IF ~live_component(component_id)
       THEN /\ resp' = Reject("update_kit_component", 404, "component_not_found")
            /\ UNCHANGED kit_components
       ELSE /\ kit_components' = [kit_components EXCEPT ![component_id].quantity = quantity]
            /\ resp' = [op |-> "update_kit_component", status |-> 200,
                        detail |-> "updated"]
    /\ UNCHANGED <<products, notifVars, restOfCatalog>>

DeleteKitComponent(component_id) ==
    /\ IF ~live_component(component_id)
       THEN /\ resp' = Reject("delete_kit_component", 404, "component_not_found")
            /\ UNCHANGED kit_components
       ELSE /\ kit_components' = [kit_components EXCEPT ![component_id].deleted = TRUE]
            /\ resp' = [op |-> "delete_kit_component", status |-> 204,
                        detail |-> "deleted"]
    /\ UNCHANGED <<products, notifVars, restOfCatalog>>

ComponentIdInputs == 1..MaxComponents

NextCatalog ==
    \/ \E req \in ProductCreates : CreateProduct(req)
    \/ \E product_id \in ProductIdInputs, req \in ProductUpdates :
          UpdateProduct(product_id, req)
    \/ \E product_id \in ProductIdInputs : DeleteProduct(product_id)
    \/ \E req \in KitComponentCreates : CreateKitComponent(req)
    \/ \E component_id \in ComponentIdInputs : UpdateKitComponent(component_id, 2)
    \/ \E component_id \in ComponentIdInputs : DeleteKitComponent(component_id)
    \/ \E product_id \in ProductIdInputs, is_primary \in BOOLEAN,
          outcome \in ScheduleOutcomes :
          CreateProductImage(product_id, TRUE, is_primary, outcome)

-----------------------------------------------------------------------------
(* api/v1/stores.py, services/store_service.py: stores and their tables;    *)
(* the rows of a deleted store stay in the sequence, marked deleted, so     *)
(* that ids are not used twice                                              *)

MaxStores == 3        \* stores rows created at most, the initial ones included
MaxTablesCount == 2   \* default_tables_count of a request at most

Digits == << "0", "1", "2", "3", "4", "5", "6", "7", "8", "9" >>

\* str(ord_num)
RECURSIVE str_int(_)
str_int(n) ==
    IF n < 10 THEN Digits[n + 1] ELSE str_int(n \div 10) \o Digits[(n % 10) + 1]

\* the numbers a table_number written by ensure_store_tables can stand for
TableNumberRange == 0..(MaxTablesCount + 1)

\* int(table.table_number) succeeds
is_int(table_number) == \E n \in TableNumberRange : str_int(n) = table_number

\* int(table.table_number)
int_of(table_number) == CHOOSE n \in TableNumberRange : str_int(n) = table_number

\* get_default_language: no default_language setting is stored
default_language == "es"

get_table_name_translation(language) ==
    IF language = "en" THEN "Table" ELSE IF language = "es" THEN "Mesa" ELSE "Table"

\* the password of the requesting user and its stored hash
UserPassword == "secret"

get_password_hash(password) == << "bcrypt", password >>

verify_password(plain_password, hashed_password) ==
    hashed_password = get_password_hash(plain_password)

\* two stores, as the other parts assume: store 1 with one table, store 2
\* with none; the users table as in Users
InitStore ==
    /\ stores = << [code |-> "TAA", is_active |-> TRUE, default_tables_count |-> 1,
                    deleted |-> FALSE],
                   [code |-> "TAB", is_active |-> TRUE, default_tables_count |-> 0,
                    deleted |-> FALSE] >>
    /\ tables = << [store_id |-> 1, table_number |-> "1", name |-> "Mesa 1",
                    is_active |-> TRUE] >>
    /\ users = [i \in { u.id : u \in Users } |->
                  [store_id |-> (CHOOSE u \in Users : u.id = i).store_id]]

live_store(store_id) == store_id \in Ids(stores) /\ ~stores[store_id].deleted

\* the rows Table(...) that the first loop of ensure_store_tables adds, for
\* the ordinals from ord_num to default_tables_count
RECURSIVE new_tables(_, _, _, _)
new_tables(existing_table_numbers, store_id, ord_num, default_tables_count) ==
    IF ord_num > default_tables_count THEN << >>
    ELSE (IF str_int(ord_num) \notin existing_table_numbers
          THEN << [store_id |-> store_id, table_number |-> str_int(ord_num),
                   name |-> get_table_name_translation(default_language)
                               \o " " \o str_int(ord_num),
                   is_active |-> TRUE] >>
          ELSE << >>)
         \o new_tables(existing_table_numbers, store_id, ord_num + 1,
                       default_tables_count)

\* ensure_store_tables: the tables table after the call. The first loop adds
\* the missing tables 1..default_tables_count and, of the existing ones, makes
\* the first of each number active and names it if its name is empty; the
\* second loop makes the existing tables above default_tables_count inactive
\* and passes over the table numbers that are no integer
ensure_store_tables(tbls, store_id, default_tables_count) ==
    LET existing_tables == { t \in Ids(tbls) : tbls[t].store_id = store_id }
        existing_table_numbers == { tbls[t].table_number : t \in existing_tables }
        in_range(t) ==
            \E ord_num \in 1..default_tables_count :
                /\ tbls[t].table_number = str_int(ord_num)
                /\ t = First({ e \in existing_tables :
                                 tbls[e].table_number = str_int(ord_num) })
        first_loop(t) ==
            IF in_range(t)
            THEN [tbls[t] EXCEPT
                    !.is_active = TRUE,
                    !.name = IF tbls[t].name = ""
                             THEN get_table_name_translation(default_language)
                                     \o " " \o tbls[t].table_number
                             ELSE tbls[t].name]
            ELSE tbls[t]
        second_loop(t) ==
            IF is_int(tbls[t].table_number)
               /\ int_of(tbls[t].table_number) > default_tables_count
            THEN [first_loop(t) EXCEPT !.is_active = FALSE]
            ELSE first_loop(t)
    IN  [t \in Ids(tbls) |-> IF t \in existing_tables THEN second_loop(t) ELSE tbls[t]]
        \o new_tables(existing_table_numbers, store_id, 1, default_tables_count)

StoreNames == { <<"t", "o">> }

StoreCreates ==
    [name : StoreNames, code_digits : {2}, default_tables_count : 0..MaxTablesCount]

\* candidate_code = f"{first_letter}{pad_base36(seq, code_digits)}"
candidate_code(first_letter, seq, code_digits) ==
    first_letter \o pad_base36(seq, code_digits)

\* db.query(Store).filter(Store.code == candidate_code).first() finds no row
code_is_free(code) == \A s \in Ids(stores) : stores[s].deleted \/ stores[s].code # code

\* create_store: the code is the first letter of the name and the first
\* sequence whose code no store has; the store is inserted and its tables are
\* provisioned. (ensure_store_document_prefixes adds rows of the table
\* document_prefixes, which this part does not keep.)
CreateStore(req) ==
    LET first_letter == IF req.name # << >> THEN upper_char(req.name[1]) ELSE "S"
        code_digits == IF req.code_digits # 0 THEN req.code_digits ELSE 2
        max_attempts == 36 ^ code_digits
        free(seq) == code_is_free(candidate_code(first_letter, seq, code_digits))
        store_id == Len(stores) + 1
    IN  /\ Len(stores) < MaxStores
        /\ IF ~\E seq \in 0..(max_attempts - 1) : free(seq)
           THEN /\ resp' = Reject("create_store", 400, "no_unique_code")
                /\ UNCHANGED <<stores, tables>>
           ELSE LET sequence == CHOOSE seq \in 0..(max_attempts - 1) :
                                    free(seq) /\ \A j \in 0..(seq - 1) : ~free(j)
                    store_code == candidate_code(first_letter, sequence, code_digits)
                IN  /\ stores' = Append(stores,
                          [code |-> store_code, is_active |-> TRUE,
                           default_tables_count |-> req.default_tables_count,
                           deleted |-> FALSE])
                    /\ tables' = ensure_store_tables(tables, store_id,
                                                     req.default_tables_count)
                    /\ resp' = [op |-> "create_store", status |-> 201,
                                detail |-> "created", id |-> store_id,
                                code |-> store_code]
        /\ UNCHANGED <<users, restOfStore>>

\* the fields class StoreUpdate declares; a field of the body that is not
\* among them is dropped when the body is parsed
StoreUpdateFields ==
    { "name", "address", "phone", "email", "is_active", "default_tables_count",
      "requires_start_inventory", "requires_end_inventory" }

\* the bodies of PUT /stores/{store_id}: has_<field> tells whether the body
\* carries the field
StoreUpdateBodies ==
    [has_code : BOOLEAN, code : {"TAB"},
     has_is_active : {FALSE}, is_active : {FALSE},
     has_default_tables_count : BOOLEAN, default_tables_count : 0..MaxTablesCount]

\* store_data.model_dump(exclude_unset=True): the declared fields the body set
update_data(body) ==
    { f \in StoreUpdateFields :
        \/ f = "is_active" /\ body.has_is_active
        \/ f = "default_tables_count" /\ body.has_default_tables_count }

\* update_store. store_data.code is evaluated on an object of class
\* StoreUpdate: the class declares no code, so the evaluation raises
\* AttributeError and the request ends with status 500 before any field is set
UpdateStore(store_id, body) ==
    /\ IF ~live_store(store_id)
       THEN /\ resp' = Reject("update_store", 404, "store_not_found")
            /\ UNCHANGED <<stores, tables>>
       ELSE IF "code" \notin StoreUpdateFields
       THEN /\ resp' = [op |-> "update_store", status |-> 500,
                        detail |-> "attribute_error", id |-> store_id]
            /\ UNCHANGED <<stores, tables>>
       ELSE IF body.has_code /\ body.code # "" /\ body.code # stores[store_id].code
       THEN /\ resp' = Reject("update_store", 400, "code_cannot_be_changed")
            /\ UNCHANGED <<stores, tables>>
       ELSE LET old_default_tables_count == stores[store_id].default_tables_count
                new_is_active == IF "is_active" \in update_data(body)
                                 THEN body.is_active
                                 ELSE stores[store_id].is_active
                new_default_tables_count ==
                    IF "default_tables_count" \in update_data(body)
                    THEN body.default_tables_count
                    ELSE old_default_tables_count
                default_tables_count_changed ==
                    new_default_tables_count # old_default_tables_count
            IN  /\ stores' = [stores EXCEPT
                                ![store_id].is_active = new_is_active,
                                ![store_id].default_tables_count =
                                    new_default_tables_count]
                /\ tables' = IF default_tables_count_changed
                             THEN ensure_store_tables(tables, store_id,
                                                      new_default_tables_count)
                             ELSE tables
                /\ resp' = [op |-> "update_store", status |-> 200,
                            detail |-> "updated", id |-> store_id]
    /\ UNCHANGED <<users, restOfStore>>

\* check_store_has_transactions. Store.products is a relationship to Product,
\* which has no column for the store: what len(store.products) gives is an
\* input of the request
check_store_has_transactions(store_id, products_count) ==
    LET orders_count == Cardinality({ o \in Ids(orders) : orders[o].store_id = store_id })
        users_count == Cardinality({ u \in DOMAIN users : users[u].store_id = store_id })
        shifts_count == Cardinality({ s \in Ids(shifts) : shifts[s].store_id = store_id })
        inventory_entries_count ==
            Cardinality({ e \in Ids(inventory_entries) :
                            inventory_entries[e].store_id = store_id })
    IN  [has_transactions |-> \/ orders_count > 0
                              \/ users_count > 0
                              \/ products_count > 0
                              \/ shifts_count > 0
                              \/ inventory_entries_count > 0,
         orders_count |-> orders_count,
         users_count |-> users_count,
         products_count |-> products_count,
         shifts_count |-> shifts_count,
         inventory_entries_count |-> inventory_entries_count]

\* db.delete(store) of a store whose relationships have no delete cascade:
\* the session sets the store_id of the related rows to NULL, which the
\* NOT NULL columns of cash_registers, shifts, tables, orders and
\* inventory_entries refuse
delete_raises_integrity_error(store_id) ==
    \/ \E c \in Ids(cash_registers) : cash_registers[c].store_id = store_id
    \/ \E s \in Ids(shifts) : shifts[s].store_id = store_id
    \/ \E t \in Ids(tables) : tables[t].store_id = store_id
    \/ \E o \in Ids(orders) : orders[o].store_id = store_id
    \/ \E e \in Ids(inventory_entries) : inventory_entries[e].store_id = store_id

\* a deletion that is physical whatever the store has and whatever force is
delete_physically_always(has_transactions, force) == TRUE

\* the branches of delete_store that call db.delete(store)
delete_physically(has_transactions, force) == ~has_transactions \/ force

StoreDeleteRequests == [password : {"secret", "wrong"}, force : BOOLEAN]

\* delete_store, requested by a user whose password is UserPassword
DeleteStore(store_id, delete_request, products_count) ==
    LET transaction_info == check_store_has_transactions(store_id, products_count)
    IN  /\ IF ~live_store(store_id)
           THEN /\ resp' = [op |-> "delete_store", status |-> 404,
                            detail |-> "store_not_found", id |-> store_id]
                /\ UNCHANGED <<stores, users>>
           ELSE IF ~verify_password(delete_request.password,
                                    get_password_hash(UserPassword))
           THEN /\ resp' = [op |-> "delete_store", status |-> 401,
                            detail |-> "invalid_password", id |-> store_id]
                /\ UNCHANGED <<stores, users>>
           ELSE IF delete_physically(transaction_info.has_transactions,
                                     delete_request.force)
           THEN IF delete_raises_integrity_error(store_id)
                THEN /\ resp' = [op |-> "delete_store", status |-> 500,
                                 detail |-> "integrity_error", id |-> store_id]
                     /\ UNCHANGED <<stores, users>>
                ELSE /\ stores' = [stores EXCEPT ![store_id].deleted = TRUE]
                     /\ users' = [u \in DOMAIN users |->
                                    IF users[u].store_id = store_id
                                    THEN [users[u] EXCEPT !.store_id = None]
                                    ELSE users[u]]
                     /\ resp' = [op |-> "delete_store", status |-> 200,
                                 detail |-> "deleted", id |-> store_id,
                                 deleted_physically |-> TRUE,
                                 transaction_info |-> transaction_info]
           ELSE /\ stores' = [stores EXCEPT ![store_id].is_active = FALSE]
                /\ UNCHANGED users
                /\ resp' = [op |-> "delete_store", status |-> 200,
                            detail |-> "deactivated", id |-> store_id,
                            deleted_physically |-> FALSE,
                            transaction_info |-> transaction_info]
        /\ UNCHANGED <<tables, restOfStore>>

StoreIdInputs == 1..MaxStores

NextStore ==
    \/ \E req \in StoreCreates : CreateStore(req)
    \/ \E store_id \in StoreIdInputs, body \in StoreUpdateBodies :
          UpdateStore(store_id, body)
    \/ \E store_id \in StoreIdInputs, delete_request \in StoreDeleteRequests,
          products_count \in {0, 1} :
          DeleteStore(store_id, delete_request, products_count)

-----------------------------------------------------------------------------
(* api/v1/store_product_groups.py: the product groups of the stores; the    *)
(* row of a deleted group stays in the sequence, marked deleted             *)

MaxGroups == 3        \* store_product_groups rows created at most

GroupNames == {"bookmarks", "Favoritos", "menu"}

\* the seed data: one group named Favoritos for store 1
InitGroup ==
    store_product_groups =
        << [store_id |-> 1, group_name |-> "Favoritos", deleted |-> FALSE] >>

live_group(group_id) ==
    group_id \in Ids(store_product_groups) /\ ~store_product_groups[group_id].deleted

\* db.query(StoreProductGroup).filter(store_id == ..., group_name == ...).first()
group_of_name(store_id, group_name) ==
    First({ g \in Ids(store_product_groups) :
              /\ ~store_product_groups[g].deleted
              /\ store_product_groups[g].store_id = store_id
              /\ store_product_groups[g].group_name = group_name })

GroupCreates == [store_id : {1, 3}, group_name : GroupNames]

\* create_store_product_group
CreateStoreProductGroup(group_data) ==
    /\ Len(store_product_groups) < MaxGroups
    /\ IF group_data.store_id \notin Stores
       THEN /\ resp' = Reject("create_group", 404, "store_not_found")
            /\ UNCHANGED store_product_groups
       ELSE IF group_of_name(group_data.store_id, group_data.group_name) # None
       THEN /\ resp' = Reject("create_group", 400, "name_exists")
            /\ UNCHANGED store_product_groups
       ELSE IF group_data.group_name = "bookmarks"
       THEN /\ resp' = Reject("create_group", 400, "bookmarks_reserved")
            /\ UNCHANGED store_product_groups
       ELSE /\ store_product_groups' = Append(store_product_groups,
                  [store_id |-> group_data.store_id,
                   group_name |-> group_data.group_name, deleted |-> FALSE])
            /\ resp' = [op |-> "create_group", status |-> 201, detail |-> "created",
                        id |-> Len(store_product_groups) + 1]
    /\ UNCHANGED restOfGroup

\* the bodies of PUT /store-product-groups/{group_id}: group_name is left out
\* ("unset"), given as null ("null") or given as a string ("value")
GroupUpdates == [set : {"unset", "null", "value"}, group_name : GroupNames]

\* update_store_product_group. A null group_name passes both guards and is
\* set on the row, which the NOT NULL column refuses at the commit
UpdateStoreProductGroup(group_id, group_data) ==
    LET has_name == group_data.set = "value"
    IN  /\ IF ~live_group(group_id)
           THEN /\ resp' = Reject("update_group", 404, "group_not_found")
                /\ UNCHANGED store_product_groups
           ELSE IF /\ store_product_groups[group_id].group_name = "bookmarks"
                   /\ has_name
                   /\ group_data.group_name # "bookmarks"
           THEN /\ resp' = Reject("update_group", 400, "cannot_rename_bookmarks")
                /\ UNCHANGED store_product_groups
           ELSE IF /\ has_name
                   /\ group_data.group_name # store_product_groups[group_id].group_name
                   /\ group_of_name(store_product_groups[group_id].store_id,
                                    group_data.group_name) # None
           THEN /\ resp' = Reject("update_group", 400, "name_exists")
                /\ UNCHANGED store_product_groups
           ELSE IF group_data.set = "null"
           THEN /\ resp' = [op |-> "update_group", status |-> 500,
                            detail |-> "integrity_error", id |-> group_id]
                /\ UNCHANGED store_product_groups
           ELSE /\ store_product_groups' =
                      IF has_name
                      THEN [store_product_groups EXCEPT
                              ![group_id].group_name = group_data.group_name]
                      ELSE store_product_groups
                /\ resp' = [op |-> "update_group", status |-> 200,
                            detail |-> "updated", id |-> group_id]
        /\ UNCHANGED restOfGroup

\* delete_store_product_group
DeleteStoreProductGroup(group_id) ==
    /\ IF ~live_group(group_id)
       THEN /\ resp' = Reject("delete_group", 404, "group_not_found")
            /\ UNCHANGED store_product_groups
       ELSE IF store_product_groups[group_id].group_name = "bookmarks"
       THEN /\ resp' = Reject("delete_group", 400, "cannot_delete_bookmarks")
            /\ UNCHANGED store_product_groups
       ELSE /\ store_product_groups' =
                  [store_product_groups EXCEPT ![group_id].deleted = TRUE]
            /\ resp' = [op |-> "delete_group", status |-> 204, detail |-> "deleted",
                        id |-> group_id]
    /\ UNCHANGED restOfGroup

GroupIdInputs == 1..MaxGroups

NextGroup ==
    \/ \E group_data \in GroupCreates : CreateStoreProductGroup(group_data)
    \/ \E group_id \in GroupIdInputs, group_data \in GroupUpdates :
          UpdateStoreProductGroup(group_id, group_data)
    \/ \E group_id \in GroupIdInputs : DeleteStoreProductGroup(group_id)

-----------------------------------------------------------------------------
(* Document numbers: the orders and shifts whose number the server          *)
(* generates, for the registers of store 1 and a register of store 2        *)

\* create-order requests without an order number
NumberOrderRequests ==
    [store_id : {1}, cash_register_id : {1}, shift_id : {None},
     order_number : {""}, status : {"open"}, items : { <<1>> }]

\* open-shift requests without a shift number, the register named by its code
NumberShiftRequests ==
    [cash_register_id : {None}, cash_register_code : {"CR-T1", "CR-A1"},
     shift_number : {""}, has_inventory_balance : {TRUE}]

\* the registration of a register of store 2
NumberRegisterRequest ==
    [store_id |-> 2, name |-> "Bar", registration_code |-> <<"a", "1">>]

NextNumbers ==
    \/ \E req \in NumberOrderRequests : CreateOrder(Superuser, req)
    \/ \E req \in NumberShiftRequests : OpenShift(Superuser, req)
    \/ \E shift_id \in ShiftIdInputs : CloseShift(Superuser, shift_id, FALSE, 0)
    \/ RegisterCashRegister(Superuser, NumberRegisterRequest)
    \/ Tick

-----------------------------------------------------------------------------
(* Shift numbers: shifts opened with a number the client supplies or with   *)
(* the number the server generates, and closed                              *)

\* a number in the server's format, as a client that numbers its own shifts
\* sends it: the first shift of today on the register of code CR-T1
client_shift_number ==
    "T" \o "CR-T1" \o "-" \o encode_base36(date_number, 0) \o pad_base36(1, 2)

\* open-shift requests for the two registers, with and without a number
ShiftNumberRequests ==
    [cash_register_id : {1, 2}, cash_register_code : {""},
     shift_number : {"", "S1", client_shift_number},
     has_inventory_balance : {TRUE}]

NextShiftNumber ==
    \/ \E req \in ShiftNumberRequests : OpenShift(Superuser, req)
    \/ \E shift_id \in ShiftIdInputs, k \in CloseKinds :
          CloseShift(Superuser, shift_id, k[1], k[2])

-----------------------------------------------------------------------------
(* utils/base36.py and the health check of main.py, called with arguments  *)
(* of every kind: a number is encoded, then what was encoded is decoded in  *)
(* some letter case                                                         *)

MaxNumber == 1300     \* the numbers encoded, at most
MaxWidth == 3         \* the widths padded to, at most

InitCalc == calc = [op |-> "none"]

\* the lower-case form of one character
lower_char(c) ==
    IF \E i \in DOMAIN UpperChars : UpperChars[i] = c
    THEN LowerChars[CHOOSE i \in DOMAIN UpperChars : UpperChars[i] = c]
    ELSE c

\* the for loop of decode_base36: ValueError on a character outside the
\* alphabet, or the number
RECURSIVE decode_base36_loop(_, _)
decode_base36_loop(chars, result) ==
    IF chars = << >> THEN [raised |-> FALSE, value |-> result]
    ELSE IF ~\E i \in DOMAIN BASE36_CHARS : BASE36_CHARS[i] = Head(chars)
    THEN [raised |-> TRUE, value |-> 0]
    ELSE decode_base36_loop(Tail(chars),
            result * 36 + (CHOOSE i \in DOMAIN BASE36_CHARS :
                              BASE36_CHARS[i] = Head(chars)) - 1)

\* decoding without string.upper()
decode_base36_case_sensitive(chars) == decode_base36_loop(chars, 0)

\* decode_base36 of the string of the characters
decode_base36(chars) ==
    decode_base36_loop([i \in DOMAIN chars |-> upper_char(chars[i])], 0)

\* encode_base36(number)
EncodeBase36(number) ==
    /\ calc.op = "none"
    /\ calc' = [op |-> "encoded", function |-> "encode_base36", number |-> number,
                width |-> 0, chars |-> encode_base36_chars(number, 0)]
    /\ UNCHANGED restOfCalc

\* pad_base36(number, width)
PadBase36(number, width) ==
    /\ calc.op = "none"
    /\ calc' = [op |-> "encoded", function |-> "pad_base36", number |-> number,
                width |-> width, chars |-> pad_base36_chars(number, width)]
    /\ UNCHANGED restOfCalc

\* decode_base36 of the encoded string, with the letters of the positions
\* of lower in lower case
DecodeBase36(lower) ==
    LET string == [i \in DOMAIN calc.chars |->
                     IF i \in lower THEN lower_char(calc.chars[i]) ELSE calc.chars[i]]
    IN  /\ calc.op = "encoded"
        /\ lower \subseteq DOMAIN calc.chars
        /\ calc' = [op |-> "decoded", function |-> calc.function,
                    number |-> calc.number, width |-> calc.width,
                    chars |-> calc.chars, string |-> string,
                    result |-> decode_base36(string)]
        /\ UNCHANGED restOfCalc

HealthOutcomes == {"ok", "error"}

\* health_check: SessionLocal(), the query SELECT 1 and db.close() each
\* succeed or raise. A failing query is caught and reported in the body of
\* the answer; only an exception outside that try gives status 503
HealthCheck(session, query, close) ==
    /\ calc.op = "none" \/ calc.op = "health_check"
    /\ calc' = [op |-> "health_check", session |-> session, query |-> query,
                close |-> close]
    /\ resp' = IF session = "error" \/ close = "error"
               THEN [op |-> "health", status |-> 503, detail |-> "unhealthy"]
               ELSE [op |-> "health", status |-> 200, detail |-> "healthy",
                     database |-> IF query = "ok" THEN "connected" ELSE "error"]
    /\ UNCHANGED <<cash_registers, shifts, shift_users, histories, shift_inventory,
                   pending, wsVars, invVars, orderVars, txVars, hookVars, catalogVars,
                   notifVars, storeVars, groupVars>>

NextUtils ==
    \/ \E number \in 0..MaxNumber : EncodeBase36(number)
    \/ \E number \in 0..MaxNumber, width \in 0..MaxWidth : PadBase36(number, width)
    \/ \E lower \in SUBSET (1..MaxWidth) : DecodeBase36(lower)
    \/ \E session \in HealthOutcomes, query \in HealthOutcomes,
          close \in HealthOutcomes : HealthCheck(session, query, close)

-----------------------------------------------------------------------------
(* Specifications: one per part of the program, over the same initial state *)

Init == InitShift /\ InitWS /\ InitInv /\ InitOrder /\ InitTx
          /\ InitHooks /\ InitCatalog /\ InitNotify /\ InitStore
          /\ InitGroup /\ InitCalc

SpecShift == Init /\ [][NextShift]_vars

SpecShiftRace == Init /\ [][NextShiftRace]_vars

SpecShiftPair == Init /\ [][NextShiftPair]_vars

SpecWS == Init /\ [][NextWS]_vars

SpecInv == Init /\ [][NextInv]_vars

SpecReg == Init /\ [][NextReg]_vars

SpecOrder == Init /\ [][NextOrder]_vars

SpecSales == Init /\ [][NextSales]_vars

SpecTx == Init /\ [][NextTx]_vars

SpecHooks == Init /\ [][NextHooks]_vars

SpecNotify == Init /\ [][NextNotify]_vars

SpecCatalog == Init /\ [][NextCatalog]_vars

SpecStore == Init /\ [][NextStore]_vars

SpecGroup == Init /\ [][NextGroup]_vars

SpecNumbers == Init /\ [][NextNumbers]_vars

SpecShiftNumber == Init /\ [][NextShiftNumber]_vars

SpecUtils == Init /\ [][NextUtils]_vars

-----------------------------------------------------------------------------
(* Claims about the shift lifecycle *)

OpenShiftNumbersOf(c) ==
    { shifts[s].shift_number : s \in
        { s \in Ids(shifts) :
            /\ shifts[s].status = "open"
            /\ \E h \in Ids(histories) :
                  histories[h].shift_id = s /\ histories[h].cash_register_id = c } }

OpenHistoriesOf(c) ==
    { h \in Ids(histories) :
        histories[h].cash_register_id = c /\ histories[h].status = "open" }

\* C1: at every moment, under any interleaving of open and close requests,
\* each cash register has at most one open Shift and at most one open
\* CashRegisterHistory row.
C1_SingleOpenShiftPerRegister ==
    \A c \in Ids(cash_registers) :
        /\ Cardinality({ s \in Ids(shifts) :
                /\ shifts[s].status = "open"
                /\ \E h \in Ids(histories) :
                      histories[h].shift_id = s /\ histories[h].cash_register_id = c }) <= 1
        /\ Cardinality(OpenHistoriesOf(c)) <= 1

\* the validations of open_shift other than the one for an open shift
OtherOpenRejections ==
    { "register_required", "register_not_found", "store_not_found", "forbidden",
      "inventory_required", "number_exists" }

\* C2: an open request (of a caller with access to the register's store) for a
\* cash register that has an open shift is answered 400 with the number of that
\* shift and adds no Shift, ShiftUser or CashRegisterHistory row; and the open
\* request that follows the successful close of the register's shift is not
\* turned down for an open shift: it creates the shift unless another
\* validation rejects it.
C2_OpenRejectedWhileOpen ==
    [][ resp'.op = "open" =>
          /\ ( /\ resp'.cash_register_id # None
               /\ resp'.detail \notin {"store_not_found", "forbidden"}
               /\ OpenShiftNumbersOf(resp'.cash_register_id) # {} )
             => /\ resp'.status = 400
                /\ resp'.detail = "already_open"
                /\ resp'.shift_number \in OpenShiftNumbersOf(resp'.cash_register_id)
                /\ shifts' = shifts
                /\ shift_users' = shift_users
                /\ histories' = histories
          /\ ( /\ resp.op \in {"close", "close_with_inventory"}
               /\ resp.status = 200
               /\ resp'.cash_register_id = resp.cash_register_id )
             => \/ resp'.detail \in OtherOpenRejections
                \/ /\ resp'.status = 201
                   /\ Len(shifts') = Len(shifts) + 1
                   /\ shifts'[Len(shifts')].status = "open"
                   /\ histories'[Len(histories')].cash_register_id = resp'.cash_register_id
                   /\ histories'[Len(histories')].status = "open"
      ]_vars

\* a second open was turned down on a register whose earlier shift was closed
\* and which was opened again
C2_Witness ==
    /\ resp.op = "open"
    /\ resp.status = 400
    /\ resp.detail = "already_open"
    /\ \E h1, h2 \in Ids(histories) :
          /\ histories[h1].cash_register_id = resp.cash_register_id
          /\ histories[h2].cash_register_id = resp.cash_register_id
          /\ histories[h1].status = "closed"
          /\ histories[h2].status = "open"

\* C3: a close request (plain or with inventory) succeeds only if the shift is
\* open and has an open paired CashRegisterHistory row; on success the shift and
\* that row are closed; a rejected close changes neither table.
C3_CloseOnlyOpenShift ==
    [][ resp'.op \in {"close", "close_with_inventory"} =>
          IF resp'.status = 200
          THEN /\ resp'.shift_id \in Ids(shifts)
               /\ shifts[resp'.shift_id].status = "open"
               /\ \E h \in Ids(histories) :
                     /\ histories[h].shift_id = resp'.shift_id
                     /\ histories[h].status = "open"
               /\ shifts'[resp'.shift_id].status = "closed"
               /\ \A h \in Ids(histories) :
                     histories[h].shift_id = resp'.shift_id
                        => histories'[h].status = "closed"
          ELSE /\ resp'.status \in {400, 403, 404}
               /\ shifts' = shifts
               /\ histories' = histories
               /\ shift_inventory' = shift_inventory
      ]_vars

\* a shift was closed with its inventory, and closing it again was rejected
C3_Witness ==
    /\ resp.op \in {"close", "close_with_inventory"}
    /\ resp.status = 400
    /\ resp.detail = "already_closed"
    /\ shifts[resp.shift_id].status = "closed"
    /\ \E h \in Ids(histories) :
          histories[h].shift_id = resp.shift_id /\ histories[h].status = "closed"
    /\ \E i \in Ids(shift_inventory) : shift_inventory[i].shift_id = resp.shift_id

-----------------------------------------------------------------------------
(* Claims about the WebSocket layer *)

\* C4: a broadcast during which connections of its identifier are added or
\* removed does not abort, and once its loop is over it has sent to every
\* connection that was registered under the identifier from its start on.
C4_BroadcastSurvivesMutation ==
    /\ bc.pc # "aborted"
    /\ bc.pc \in {"cleanup", "done"} =>
          \A websocket \in bc.start :
              ( /\ bc.identifier \in DOMAIN active_connections
                /\ websocket \in active_connections[bc.identifier] )
                 => websocket \in bc.visited

\* C5: once a socket handler has ended, its websocket is in neither registry
\* dict, and its socket is closed: by the server, or by the peer before.
C5_EndedHandlerCleanedUp ==
    \A websocket \in Sockets :
        hpc[websocket] = "done" =>
            /\ websocket \notin DOMAIN connection_metadata
            /\ \A identifier \in DOMAIN active_connections :
                  websocket \notin active_connections[identifier]
            /\ sock[websocket] \in {"server_closed", "peer_closed"}

-----------------------------------------------------------------------------
(* Claims about inventory entries and cash register registration *)

\* C6: two create requests with the same entry_number, in any order or
\* interleaving, are both answered with the id of the same entry, and one row
\* with that entry_number is stored.
C6_SameNumberSameEntry ==
    /\ \A n \in {"E1", "E2"} :
          Cardinality({ e \in Ids(inventory_entries) :
                          inventory_entries[e].entry_number = n }) <= 1
    /\ \A w1, w2 \in Workers :
          ( /\ wresp[w1].status = 201
            /\ wresp[w2].status = 201
            /\ wresp[w1].entry_number = wresp[w2].entry_number )
             => wresp[w1].id = wresp[w2].id

RegistersWithCodeOf(registration_code) ==
    { c \in Ids(cash_registers) :
        cash_registers[c].code = "CR-" \o str_upper(registration_code) }

\* C7: after any sequence of registrations there is at most one cash register
\* per code "CR-" + upper(registration_code), and registering a code whose
\* register exists returns that register's id, adds no row, and leaves the
\* register active with the store and the name of the request.
C7_OneRegisterPerCode ==
    /\ [](\A req \in RegisterRequests :
             Cardinality(RegistersWithCodeOf(req.registration_code)) <= 1)
    /\ [][ ( /\ resp'.op = "register"
             /\ resp'.status = 201
             /\ RegistersWithCodeOf(resp'.request.registration_code) # {} )
            => /\ resp'.id \in RegistersWithCodeOf(resp'.request.registration_code)
               /\ Len(cash_registers') = Len(cash_registers)
               /\ cash_registers'[resp'.id].store_id = resp'.request.store_id
               /\ cash_registers'[resp'.id].name = resp'.request.name
               /\ cash_registers'[resp'.id].is_active
               /\ cash_registers'[resp'.id].code = cash_registers[resp'.id].code
         ]_vars

\* a register of store 1 was registered again, with its code in lower case,
\* for store 2 and under another name
C7_Witness ==
    /\ resp.op = "register"
    /\ resp.status = 201
    /\ resp.detail = "updated"
    /\ resp.request.registration_code = <<"t", "1">>
    /\ resp.id = 1
    /\ cash_registers[1].store_id = 2
    /\ cash_registers[1].name = "Bar"
    /\ cash_registers[1].code = "CR-T1"
    /\ \E c \in Ids(cash_registers) : cash_registers[c].code = "CR-A1"

-----------------------------------------------------------------------------
(* Claims about orders and sales reports *)

\* C8: after any sequence of order creations and updates, an order has its
\* paid_at set exactly when its status is paid or has been paid before.
C8_PaidAtIffEverPaid ==
    \A o \in Ids(orders) :
        (orders[o].paid_at # None) <=> (orders[o].status = "paid" \/ o \in ever_paid)

\* an order paid by an update and cancelled afterwards keeps its paid_at, next
\* to an order that was never paid and has none
C8_Witness ==
    \E o1, o2 \in Ids(orders) :
        /\ orders[o1].status = "cancelled"
        /\ orders[o1].paid_at = 2
        /\ o1 \in ever_paid
        /\ orders[o2].status = "open"
        /\ orders[o2].paid_at = None
        /\ o2 \notin ever_paid

\* C9: a create-order request that reaches the order-number check with a
\* number an order already has is answered 400, and stores no order and no
\* order item.
C9_DuplicateNumberIs400 ==
    [][ ( /\ resp'.op = "create_order"
          /\ resp'.order_number # ""
          /\ \E o \in Ids(orders) : orders[o].order_number = resp'.order_number
          /\ resp'.detail = "number_exists" )
         => /\ resp'.status = 400
            /\ orders' = orders
            /\ order_items' = order_items
      ]_vars

UserWithId(id) == CHOOSE user \in Users : user.id = id

\* C10: the orders in a sales summary or a sales details response to a user
\* who is not a superuser all belong to that user's store, whatever the
\* filter, and also for a user with no store.
C10_SalesOfOwnStoreOnly ==
    ( /\ resp.op \in {"sales_summary", "sales_details"}
      /\ resp.status = 200
      /\ ~UserWithId(resp.user_id).is_superuser )
     => \A o \in resp.order_ids :
            orders[o].store_id = UserWithId(resp.user_id).store_id

\* C11: after any sequence of inventory-transaction create and update
\* requests, every stored transaction has exactly one of material_id and
\* product_id set: never both, never neither.
C11_ExactlyOneOfMaterialProduct ==
    \A t \in Ids(inventory_transactions) :
        (inventory_transactions[t].material_id # None)
            # (inventory_transactions[t].product_id # None)

C13_NoneKeepsCurrentValue ==
    hook_exec.hook_type \in {"before", "filter"} =>
        \A k \in 1..Len(hook_exec.calls) :
            ( ~hook_exec.calls[k].raises /\ hook_exec.calls[k].value = NoneValue ) =>
                IF k < Len(hook_exec.calls)
                THEN hook_exec.calls[k + 1].arg = hook_exec.calls[k].arg
                ELSE hook_exec.result = hook_exec.calls[k].arg

\* the connections that were registered when the broadcast task started and
\* are registered and open now
StillConnected ==
    { websocket \in notif.audience \cap DOMAIN connection_metadata :
        sock[websocket] = "open" }

\* the websockets the message went to are the ones its identifiers name
DeliveredAsTargeted ==
    IF notif.cash_register_id # None
    THEN \A websocket \in notif.delivered \cap DOMAIN connection_metadata :
            connection_metadata[websocket].cash_register_id = notif.cash_register_id
    ELSE IF notif.store_id # None
    THEN /\ \A websocket \in notif.delivered \cap DOMAIN connection_metadata :
               connection_metadata[websocket].store_id = notif.store_id
         /\ \A websocket \in StillConnected :
               connection_metadata[websocket].store_id = notif.store_id
                   => websocket \in notif.delivered
    ELSE StillConnected \subseteq notif.delivered

\* C14: a notification carrying a cash_register_id is delivered to that
\* register's connections only; one carrying only a store_id is delivered to
\* every open connection that belongs to that store, the connections opened
\* through the per-register endpoint included; one carrying neither is
\* delivered to every registered connection.  Stated for the step in which
\* the broadcast task ends without an exception.
C14_DeliveredToTargets ==
    [][ (notif.pc = "running" /\ notif'.pc = "done") => DeliveredAsTargeted' ]_vars

C16_ProductMutationNotifies ==
    [][ products' # products
          => /\ notif'.count = notif.count + 1
             /\ notif'.entity_id = resp'.id ]_vars

\* the table numbers of the active tables of a store
active_table_numbers(tbls, store_id) ==
    { tbls[t].table_number :
        t \in { e \in Ids(tbls) : tbls[e].store_id = store_id /\ tbls[e].is_active } }

\* over one step: the active tables of the store are the tables 1..count, one
\* of each number; no table row is removed; a table that had a non-empty
\* name has kept it
TablesProvisioned(store_id, count) ==
    /\ active_table_numbers(tables', store_id) = { str_int(n) : n \in 1..count }
    /\ Cardinality({ t \in Ids(tables') :
                       tables'[t].store_id = store_id /\ tables'[t].is_active }) = count
    /\ Len(tables') >= Len(tables)
    /\ \A t \in Ids(tables) :
          /\ tables'[t].store_id = tables[t].store_id
          /\ tables'[t].table_number = tables[t].table_number
          /\ tables[t].name # "" => tables'[t].name = tables[t].name

\* C17: after a store is created with default_tables_count N, and after every
\* update request for an existing store that carries a default_tables_count N
\* different from the store's, the active tables of the store are exactly the
\* tables numbered 1..N; the tables above N are made inactive and not
\* deleted, and a table that has a non-empty name keeps it.
C17_ActiveTablesFollowCount ==
    [][ /\ \A req \in StoreCreates :
              (CreateStore(req) /\ resp'.status = 201)
                  => TablesProvisioned(resp'.id, req.default_tables_count)
        /\ \A store_id \in StoreIdInputs, body \in StoreUpdateBodies :
              ( /\ UpdateStore(store_id, body)
                /\ live_store(store_id)
                /\ body.has_default_tables_count
                /\ body.default_tables_count # stores[store_id].default_tables_count )
                  => TablesProvisioned(store_id, body.default_tables_count)
      ]_vars

\* the store has an order, a user, a product, a shift or an inventory entry
has_dependent_data(store_id, products_count) ==
    \/ \E o \in Ids(orders) : orders[o].store_id = store_id
    \/ \E u \in DOMAIN users : users[u].store_id = store_id
    \/ products_count > 0
    \/ \E s \in Ids(shifts) : shifts[s].store_id = store_id
    \/ \E e \in Ids(inventory_entries) : inventory_entries[e].store_id = store_id

C19_CodeChangeIs400 ==
    [][ /\ \A store_id \in StoreIdInputs, body \in StoreUpdateBodies :
              ( /\ UpdateStore(store_id, body)
                /\ live_store(store_id)
                /\ body.has_code
                /\ body.code # stores[store_id].code )
                  => resp'.status = 400 /\ stores' = stores
        /\ \A s \in Ids(stores) : stores'[s].code = stores[s].code
      ]_vars

LiveComponents == { k \in Ids(kit_components) : ~kit_components[k].deleted }

\* C20: after any sequence of product and kit-component create, update and
\* delete requests, every stored KitComponent has product_id different from
\* component_id and an owning product whose product_type is kit.
C20_KitComponentsOfKits ==
    \A k \in LiveComponents :
        /\ kit_components[k].product_id # kit_components[k].component_id
        /\ live_product(kit_components[k].product_id)
        /\ products[kit_components[k].product_id].product_type = "kit"

\* C21: no step of the store-product-group requests creates a group named
\* "bookmarks", renames a group to "bookmarks", renames a group named
\* "bookmarks" to another name, or deletes a group named "bookmarks".
C21_BookmarksReserved ==
    [][ /\ \A g \in Ids(store_product_groups') \ Ids(store_product_groups) :
              store_product_groups'[g].group_name # "bookmarks"
        /\ \A g \in Ids(store_product_groups) :
              /\ store_product_groups[g].group_name # "bookmarks"
                    => store_product_groups'[g].group_name # "bookmarks"
              /\ store_product_groups[g].group_name = "bookmarks"
                    => /\ store_product_groups'[g].group_name = "bookmarks"
                       /\ store_product_groups'[g].deleted
                             = store_product_groups[g].deleted
      ]_vars

\* C22: while a websocket is open and its handler waits for a frame, a ping
\* frame takes the handler to the sending of the pong, and every other text
\* frame (unknown type, JSON that is not an object, text that is no JSON) is
\* ignored: the handler waits for the next frame and the websocket stays open
\* and registered.
C22_OnlyPingIsAnswered ==
    [][ \A websocket \in Sockets :
           /\ Receive(websocket, "ping") => hpc'[websocket] = "pong"
           /\ \A kind \in FrameKinds \ {"ping"} :
                 Receive(websocket, kind)
                    => /\ hpc'[websocket] = "receive"
                       /\ sock'[websocket] = "open"
                       /\ websocket \in DOMAIN connection_metadata'
      ]_vars

\* the prefix a number of the document type has to carry for the store: the
\* store's own active prefix, or else the active global one
expected_doc_prefix(store_id, doc_type) ==
    LET own == { d \in DocumentPrefixes :
                   d.store_id = store_id /\ d.doc_type = doc_type /\ d.is_active }
        global == { d \in DocumentPrefixes :
                      d.store_id = None /\ d.doc_type = doc_type /\ d.is_active }
    IN  IF own # {} THEN (CHOOSE d \in own : TRUE).prefix
        ELSE IF global # {} THEN (CHOOSE d \in global : TRUE).prefix
        ELSE ""

\* C23: the order number and the shift number the server generates for a
\* store start with the store's own active prefix of the document type when
\* there is one, and otherwise with the global prefix of that type.
C23_StorePrefixElseGlobal ==
    [][ /\ \A req \in NumberOrderRequests :
              (CreateOrder(Superuser, req) /\ resp'.status = 201)
                 => orders'[resp'.id].order_number =
                       expected_doc_prefix(req.store_id, "invoice")
                          \o cash_registers[req.cash_register_id].code \o "-"
                          \o timestamp_base36[clock]
        /\ \A req \in NumberShiftRequests :
              (OpenShift(Superuser, req) /\ resp'.status = 201)
                 => shifts'[resp'.id].shift_number =
                       expected_doc_prefix(shifts'[resp'.id].store_id, "shift")
                          \o cash_registers[resp'.cash_register_id].code \o "-"
                          \o encode_base36(date_number, 0)
                          \o pad_base36(shift_count(resp'.cash_register_id) + 1, 2)
      ]_vars

\* C24: for every number n from 0 on, decoding what encode_base36(n) gives,
\* or what pad_base36(n, width) gives for any width, gives n again, in
\* whatever letter case the encoded string is handed to decode_base36.
C24_DecodeInvertsEncode ==
    calc.op = "decoded" => ~calc.result.raised /\ calc.result.value = calc.number

\* a number of more than one digit was padded, and decoded from a string
\* whose case was changed
C24_Witness ==
    /\ calc.op = "decoded"
    /\ calc.function = "pad_base36"
    /\ calc.number > 36
    /\ Len(calc.chars) = calc.width
    /\ calc.chars[1] = "A"
    /\ calc.string # calc.chars
    /\ calc.result.value = calc.number

\* C25: when the connectivity query of the health check fails, the answer
\* of /health has status 503.
C25_QueryFailureIs503 ==
    (calc.op = "health_check" /\ calc.session = "ok" /\ calc.query = "error")
        => resp.status = 503

\* C26: in every committed state of the database, each shift has exactly
\* one cash register history row paired with it, and the shift is open if
\* and only if that row is open, whatever requests to open and to close
\* have failed, are under way or were committed.
C26_ShiftPairedWithHistory ==
    \A s \in Ids(shifts) :
        LET rows == { h \in Ids(histories) : histories[h].shift_id = s }
        IN  /\ Cardinality(rows) = 1
            /\ \A h \in rows :
                  (shifts[s].status = "open") <=> (histories[h].status = "open")

\* one shift was closed and another is open, while a worker holds a request
\* it has validated and not committed
C26_Witness ==
    /\ \E s \in Ids(shifts) : shifts[s].status = "closed"
    /\ \E s \in Ids(shifts) : shifts[s].status = "open"
    /\ \E w \in Workers : pending[w].op # "none"

\* the identifiers whose set in active_connections holds the websocket
sets_holding(websocket) ==
    { k \in DOMAIN active_connections : websocket \in active_connections[k] }

\* C27: a websocket is a key of connection_metadata if and only if it is a
\* member of exactly one set of active_connections, and that set is the one
\* of the identifier recorded for it; active_connections holds no empty set.
C27_MetadataMatchesConnections ==
    /\ \A websocket \in Sockets :
          /\ (websocket \in DOMAIN connection_metadata)
                <=> (Cardinality(sets_holding(websocket)) = 1)
          /\ (websocket \in DOMAIN connection_metadata)
                => (sets_holding(websocket) =
                        { connection_metadata[websocket].identifier })
    /\ \A k \in DOMAIN active_connections : active_connections[k] # {}

\* a broadcast's clean-up closed and removed a websocket whose handler has
\* not finished, while another websocket is still registered
C27_Witness ==
    /\ \E websocket \in Sockets :
          /\ websocket \notin DOMAIN connection_metadata
          /\ sock[websocket] = "server_closed"
          /\ hpc[websocket] \notin {"done", "idle"}
    /\ DOMAIN connection_metadata # {}
    /\ bc.pc = "done"

\* C28: the shift number generate_shift_number produces for an open request
\* that carries none is the number of no shift that already exists.
C28_GeneratedNumberUnique ==
    [][ \A req \in ShiftNumberRequests :
            (req.shift_number = "" /\ OpenShift(Superuser, req) /\ resp'.status = 201)
                => \A s \in Ids(shifts) :
                      shifts[s].shift_number # shifts'[resp'.id].shift_number
      ]_vars

\* C29: the inventory entry a create-inventory-entry request of a user who
\* is no superuser is answered with belongs to the store assigned to that
\* user, also when the entry number sent exists already in another store.
C29_EntryOfOwnStoreOnly ==
    [][ \A w \in Workers, user \in Users, req \in EntryRequests :
            ( /\ ~user.is_superuser
              /\ CreateEntryBegin(w, user, req)
              /\ UNCHANGED pending
              /\ wresp'[w].status = 201 )
                => inventory_entries[wresp'[w].id].store_id = user.store_id
      ]_vars

\* C30: for the same caller, filter and database state, the orders the sales
\* details cover over all their pages are the paid orders the sales summary
\* covers, and no order is covered when the filter is current_shift or
\* last_shift and no shift matches.
C30_DetailsCoverSummaryOrders ==
    [][ resp'.op = "sales_details" =>
          \A user \in Users, filter \in SalesFilters :
              (GetSalesDetails(user, filter) /\ resp'.status = 200)
                 => \E shift_id \in ShiftChoices(filter) :
                       resp'.order_ids =
                          sales_response("sales_summary", user, filter, shift_id).order_ids
      ]_vars

====
